---------------------------- MODULE Spec2Model ----------------------------
(***************************************************************************)
(* A model of the portable bytecode interpreter of the vm package          *)
(* (src/unnamed/part_002): the opcode handlers bcfindsymgo,                *)
(* bccmpvi64immgo, bccmplti64immgo, bctuplego, bcauxvalgo, bcinitgo and    *)
(* the ret family, the dispatch loop eval, and the row drivers             *)
(* evalfiltergo, evaldedupgo, evalaggregatego, evalfindgo, evalprojectgo   *)
(* and evalsplatgo.                                                        *)
(*                                                                         *)
(* The document buffer is a concrete byte sequence (Vmm) holding encoded   *)
(* rows; registers hold offsets into it, as in the code.  Byte offsets are *)
(* 0-based as in the code; Vmm[o + 1] is the byte at offset o.             *)
(***************************************************************************)
EXTENDS Integers, Sequences, FiniteSets, TLC

(***************************************************************************)
(* Bounds of the model.                                                    *)
(***************************************************************************)
\* the longest input delimiter vector handed to a row driver
MaxRows == 18
\* the largest stride (in catalogue rows) of an input delimiter vector
MaxStep == 2

(***************************************************************************)
(* Program constants.                                                      *)
(***************************************************************************)
\* the lane width N: masks are uint16 (0xffff), one bit per lane
bcLaneCount == 16

Lanes == 0 .. (bcLaneCount - 1)

\* error codes of bc.err (0 is "no error"); distinct non-zero codes
bcerrCorrupt == 1
bcerrNotSupported == 3
bcerrMoreScratch == 2

\* ion.Type codes: the high nibble of the TLV byte
BoolType == 1
UintType == 2
IntType == 3
FloatType == 4
ListType == 11
StructType == 13

(***************************************************************************)
(* uint16 masks as integers; bit i is lane i.                              *)
(***************************************************************************)
RECURSIVE Pow2(_)
Pow2(n) == IF n = 0 THEN 1 ELSE 2 * Pow2(n - 1)

\* mask & (1 << i) != 0
Bit(mask, i) == (mask \div Pow2(i)) % 2 = 1

LanesOf(mask) == {i \in Lanes : Bit(mask, i)}

RECURSIVE MaskOfUpTo(_, _)
MaskOfUpTo(S, n) ==
    IF n = 0 THEN 0
    ELSE MaskOfUpTo(S, n - 1) + (IF (n - 1) \in S THEN Pow2(n - 1) ELSE 0)

MaskOf(S) == MaskOfUpTo(S, bcLaneCount)

\* bits.OnesCount16
OnesCount16(mask) == Cardinality(LanesOf(mask))

\* a mask that is never shifted
LowMaskAll(n) == Pow2(bcLaneCount) - 1

\* mask := uint16(0xffff); mask >>= bcLaneCount - n
LowMask(n) == (Pow2(bcLaneCount) - 1) \div Pow2(bcLaneCount - n)

Min(a, b) == IF a < b THEN a ELSE b

SeqOf(n, v) == [k \in 1 .. n |-> v]

RECURSIVE Concat(_)
Concat(ss) == IF ss = <<>> THEN <<>> ELSE Head(ss) \o Concat(Tail(ss))

(***************************************************************************)
(* The binary value encoding: constructors of the encoded test documents.  *)
(* A value is [TLV][varuint length?][body]; a struct body is a sequence of *)
(* (varuint label, value) pairs.                                           *)
(***************************************************************************)
\* a struct field label below 128: one varuint byte with the stop bit
Lbl(sym) == <<128 + sym>>

(***************************************************************************)
(* The document buffer.  Each catalogue row is a struct body with strictly *)
(* ascending labels; CorruptRow ends in a label byte without its stop bit. *)
(***************************************************************************)
F(label, value) == [l |-> label, v |-> value]

\* the catalogue: each row as its fields (label, encoded value).  0x2n is a
\* positive int of n bytes, 0x3n a negative int, 0x48 a float, 0x8n a
\* string, 0xBn a list, 0xDn a struct; 0xBE 0x99 heads a list of 25 bytes.
RowFields ==
    << \* {5: 1, 9: 3, 12: "3", 20: [1, 2]}
       <<F(5, <<33, 1>>), F(9, <<33, 3>>), F(12, <<129, 51>>),
         F(20, <<180, 33, 1, 33, 2>>)>>,
       \* {5: "abcdef", 9: 3.0}
       <<F(5, <<134, 97, 98, 99, 100, 101, 102>>), F(9, <<72, 64, 8, 0, 0, 0, 0, 0, 0>>)>>,
       \* {9: 3.5, 20: []}
       <<F(9, <<72, 64, 12, 0, 0, 0, 0, 0, 0>>), F(20, <<176>>)>>,
       \* {5: 2, 9: "3"}
       <<F(5, <<33, 2>>), F(9, <<129, 51>>)>>,
       \* {9: -2, 12: {9: 5}}
       <<F(9, <<49, 2>>), F(12, <<211, 137, 33, 5>>)>>,
       \* {5: 7, 12: {5: 1, 9: 9}, 20: ["ab", 7, [1], "abcdefghijklmno"]}
       <<F(5, <<33, 7>>),
         F(12, <<214, 133, 33, 1, 137, 33, 9>>),
         F(20, <<190, 153, 130, 97, 98, 33, 7, 178, 33, 1, 142, 143, 97, 98, 99, 100,
                 101, 102, 103, 104, 105, 106, 107, 108, 109, 110, 111>>)>>,
       \* {9: 0, 12: 4}
       <<F(9, <<32>>), F(12, <<33, 4>>)>>,
       \* {5: 4, 9: -2.5, 12: 2.0}
       <<F(5, <<33, 4>>), F(9, <<72, 192, 4, 0, 0, 0, 0, 0, 0>>),
         F(12, <<72, 64, 0, 0, 0, 0, 0, 0, 0>>)>> >>

\* the struct body of a row: its (label, value) pairs in order
RowBody(fields) == Concat([x \in 1 .. Len(fields) |-> Lbl(fields[x].l) \o fields[x].v])

RowBodies == [k \in 1 .. Len(RowFields) |-> RowBody(RowFields[k])]

\* {5: 1, <truncated label>}
CorruptRow == <<133, 33, 1, 9>>

NumRows == Len(RowBodies)
\* the kind of the corrupt row
CorruptKind == NumRows + 1

\* one copy of every catalogue row, then the corrupt row
Catalogue == Concat(RowBodies) \o CorruptRow

\* the document memory (vmm): one catalogue per input position, so that the
\* row at each position of a delimiter vector has an offset of its own
Vmm == Concat([i \in 1 .. (MaxRows + 1) |-> Catalogue])

RECURSIVE RowOffset(_)
RowOffset(k) == IF k = 1 THEN 0 ELSE RowOffset(k - 1) + Len(RowBodies[k - 1])

RowLen(k) == IF k = CorruptKind THEN Len(CorruptRow) ELSE Len(RowBodies[k])

\* the delimiter (vmref) of the row of kind k at input position i (from 1):
\* {offset, length} of its struct body
Doc(i, k) == <<(i - 1) * Len(Catalogue) + RowOffset(k), RowLen(k)>>

(***************************************************************************)
(* Zero-copy readers over a byte buffer (package ion).  pos and end are    *)
(* 0-based offsets into buf; a reader fails on a truncated varuint.        *)
(***************************************************************************)
RECURSIVE readuv(_, _, _, _)
readuv(buf, pos, end, acc) ==
    IF pos >= end THEN [ok |-> FALSE, val |-> 0, next |-> pos]
    ELSE IF buf[pos + 1] >= 128
         THEN [ok |-> TRUE, val |-> acc * 128 + (buf[pos + 1] - 128), next |-> pos + 1]
         ELSE readuv(buf, pos + 1, end, acc * 128 + buf[pos + 1])

\* ion.ReadLabel: the varuint label of a struct field and the rest
ReadLabel(buf, pos, end) == readuv(buf, pos, end, 0)

\* ion.TypeOf: the high nibble of the TLV byte
TypeOf(tlv) == tlv \div 16

\* ion.HeaderSizeOf: 1, plus the varuint length bytes when the low nibble is 14
HeaderSizeOf(buf, pos) ==
    IF buf[pos + 1] % 16 = 14 /\ TypeOf(buf[pos + 1]) # BoolType
    THEN readuv(buf, pos + 1, Len(buf), 0).next - pos
    ELSE 1

\* ion.SizeOf: the total span of the value at pos (header + body)
SizeOf(buf, pos) ==
    LET low == buf[pos + 1] % 16 IN
    IF TypeOf(buf[pos + 1]) = BoolType \/ low = 15 THEN 1
    ELSE IF low = 14
         THEN LET uv == readuv(buf, pos + 1, Len(buf), 0) IN (uv.next - pos) + uv.val
         ELSE 1 + low

\* ion.ReadUint: the big-endian magnitude of a positive int (bodies up to 2 bytes)
RECURSIVE bigEndian(_, _, _, _)
bigEndian(buf, pos, n, acc) ==
    IF n = 0 THEN acc ELSE bigEndian(buf, pos + 1, n - 1, acc * 256 + buf[pos + 1])

ReadUint(buf, pos) == bigEndian(buf, pos + 1, buf[pos + 1] % 16, 0)

\* ion.ReadInt: the signed value; the sign lives in the type code
ReadInt(buf, pos) ==
    IF TypeOf(buf[pos + 1]) = IntType
    THEN 0 - bigEndian(buf, pos + 1, buf[pos + 1] % 16, 0)
    ELSE bigEndian(buf, pos + 1, buf[pos + 1] % 16, 0)

\* ion.ReadFloat64 on an 8-byte float whose value is a multiple of 1/16 with
\* exponent 0..3: the value times 16, from sign, exponent and top mantissa nibble
ReadFloat64x16(buf, pos) ==
    LET b0 == buf[pos + 2]
        b1 == buf[pos + 3]
        neg == b0 >= 128
        exp == (b0 % 128) * 16 + (b1 \div 16) - 1023
        mag == (16 + (b1 % 16)) * Pow2(exp)
    IN IF neg THEN 0 - mag ELSE mag

(***************************************************************************)
(* The register stack.  A slot operand names a register; bRegData,         *)
(* vRegData and sRegData share the offsets/sizes prefix, so one file (v)   *)
(* holds them and a b or s view of a slot reads and writes that prefix.    *)
(* kRegData (masks, file k), i64RegData (scalars, file i) and hRegData     *)
(* (hashes, file h) are files of their own.                                *)
(***************************************************************************)
VSlots == 0 .. 2
KSlots == 0 .. 3
ISlots == 0 .. 1
HSlots == 0 .. 0

ZeroLanes == [i \in Lanes |-> 0]

\* vRegData{}: offsets, sizes, typeL, headerSize
ZeroV == [offsets |-> ZeroLanes, sizes |-> ZeroLanes,
          typeL |-> ZeroLanes, headerSize |-> ZeroLanes]

\* bRegData{} / sRegData{}
ZeroB == [offsets |-> ZeroLanes, sizes |-> ZeroLanes]

ZeroStack == [v |-> [x \in VSlots |-> ZeroV], k |-> [x \in KSlots |-> 0],
              i |-> [x \in ISlots |-> ZeroLanes], h |-> [x \in HSlots |-> ZeroLanes]]

\* func setvmrefB(dst *bRegData, src []vmref)
setvmrefB(src) ==
    [offsets |-> [i \in Lanes |-> IF i < Len(src) THEN src[i + 1][1] ELSE 0],
     sizes   |-> [i \in Lanes |-> IF i < Len(src) THEN src[i + 1][2] ELSE 0]]

\* func setvmref(dst *vRegData, src []vmref)
setvmref(src) ==
    [offsets |-> [i \in Lanes |-> IF i < Len(src) THEN src[i + 1][1] ELSE 0],
     sizes   |-> [i \in Lanes |-> IF i < Len(src) THEN src[i + 1][2] ELSE 0],
     typeL   |-> [i \in Lanes |->
                    IF i < Len(src) /\ src[i + 1][2] # 0 THEN Vmm[src[i + 1][1] + 1] ELSE 0],
     headerSize |-> [i \in Lanes |->
                    IF i < Len(src) /\ src[i + 1][2] # 0
                    THEN HeaderSizeOf(Vmm, src[i + 1][1]) ELSE 0]]

(***************************************************************************)
(* The compiled stream: one cell per byte.  The first byte of an opcode    *)
(* word holds the opcode's text (bytecode_gen.go); operands are bytes.     *)
(***************************************************************************)
\* func bcword(buf []byte, pc int) uint: a little-endian 16-bit operand
bcword(buf, pc) == buf[pc + 1] + 256 * buf[pc + 2]

\* int64(bcword64(buf, pc)) for immediates whose bytes 2..7 are the sign fill
bcword64(buf, pc) ==
    buf[pc + 1] + 256 * buf[pc + 2] - (IF buf[pc + 8] >= 128 THEN 65536 ELSE 0)

\* bcop(bcword(bc.compiled, pc))
bcop(buf, pc) == buf[pc + 1]

\* the assembler: operand encodings of the instruction stream
U16(x) == <<x % 256, x \div 256>>
ImmI64(x) ==
    IF x >= 0 THEN <<x % 256, x \div 256, 0, 0, 0, 0, 0, 0>>
    ELSE <<(65536 + x) % 256, (65536 + x) \div 256, 255, 255, 255, 255, 255, 255>>
SymbolID(sym) == <<128 + sym, 0, 0, 0>>
Op(text) == <<text, 0>>

InsInit(b, k) == Concat(<<Op("init"), U16(b), U16(k)>>)
InsFindsym(dv, dk, sb, sym, sk) ==
    Concat(<<Op("findsym"), U16(dv), U16(dk), U16(sb), SymbolID(sym), U16(sk)>>)
InsCmpvi64imm(ds, dk, av, imm, ak) ==
    Concat(<<Op("cmpv.i64@imm"), U16(ds), U16(dk), U16(av), ImmI64(imm), U16(ak)>>)
InsCmplti64imm(dk, a0, imm, sk) ==
    Concat(<<Op("cmplt.i64@imm"), U16(dk), U16(a0), ImmI64(imm), U16(sk)>>)
InsTuple(db, dk, sv, sk) == Concat(<<Op("tuple"), U16(db), U16(dk), U16(sv), U16(sk)>>)
InsAuxval(dv, dk, aux) == Concat(<<Op("auxval"), U16(dv), U16(dk), U16(aux)>>)
InsRet == Op("ret")
InsRetk(k) == Concat(<<Op("ret.k"), U16(k)>>)
InsRetbk(b, k) == Concat(<<Op("ret.b.k"), U16(b), U16(k)>>)
InsRetbhk(b, h, k) == Concat(<<Op("ret.b.h.k"), U16(b), U16(h), U16(k)>>)
InsRetsk(sr, k) == Concat(<<Op("ret.s.k"), U16(sr), U16(k)>>)
InsUnpack(ds, dk, sv, imm, sk) ==
    Concat(<<Op("unpack"), U16(ds), U16(dk), U16(sv), U16(imm), U16(sk)>>)
InsHashvalue(dh, sv, sk) == Concat(<<Op("hashvalue"), U16(dh), U16(sv), U16(sk)>>)
InsBoxf64(dv, ss, sk) == Concat(<<Op("box.f64"), U16(dv), U16(ss), U16(sk)>>)

(***************************************************************************)
(* Opcode handlers.  b is the bytecode object (bc), pc the offset of the   *)
(* first operand byte; each returns the new bc and the next pc.            *)
(***************************************************************************)
\* func bcinitgo(bc *bytecode, pc int) int
bcinitgo(b, pc) ==
    LET delims == bcword(b.compiled, pc)
        mask   == bcword(b.compiled, pc + 2)
    IN [bc |-> [b EXCEPT !.vstack.v[delims].offsets = b.delims.offsets,
                         !.vstack.v[delims].sizes = b.delims.sizes,
                         !.err = 0,
                         !.vstack.k[mask] = b.validLanes],
        pc |-> pc + 4]

\* func bcauxvalgo(bc *bytecode, pc int) int
bcauxvalgo(b, pc) ==
    LET dstv == bcword(b.compiled, pc)
        dstk == bcword(b.compiled, pc + 2)
        auxv == bcword(b.compiled, pc + 4)
        all  == b.auxvals[auxv + 1]
        lst  == SubSeq(all, b.auxpos + 1, Min(Len(all), b.auxpos + bcLaneCount))
        mask == MaskOf({i \in Lanes : i < Len(lst) /\ lst[i + 1][2] # 0})
    IN [bc |-> [b EXCEPT !.vstack.v[dstv] = setvmref(lst),
                         !.vstack.k[dstk] = mask],
        pc |-> pc + 6]

\* a symsearch that takes the first field whose label does not exceed the
\* target for the match
symsearchFirstLabel(pos, end, symbol, cur) ==
    IF pos >= end THEN [v |-> cur, hit |-> FALSE, corrupt |-> FALSE]
    ELSE LET lab == ReadLabel(Vmm, pos, end) IN
         IF ~lab.ok THEN [v |-> cur, hit |-> FALSE, corrupt |-> TRUE]
         ELSE IF lab.val > symbol THEN [v |-> cur, hit |-> FALSE, corrupt |-> FALSE]
         ELSE [v |-> [off |-> lab.next, size |-> SizeOf(Vmm, lab.next),
                      typeL |-> Vmm[lab.next + 1],
                      hdr |-> HeaderSizeOf(Vmm, lab.next)],
               hit |-> TRUE, corrupt |-> FALSE]

\* a symsearch that writes the lane of dstv on a match only, and on a miss
\* leaves an empty value at the place where the scan stopped
RECURSIVE symsearchMissEmpty(_, _, _, _)
symsearchMissEmpty(pos, end, symbol, cur) ==
    LET past == [off |-> pos, size |-> 0, typeL |-> 0, hdr |-> 0] IN
    IF pos >= end THEN [v |-> past, hit |-> FALSE, corrupt |-> FALSE]
    ELSE LET lab == ReadLabel(Vmm, pos, end) IN
         IF ~lab.ok THEN [v |-> cur, hit |-> FALSE, corrupt |-> TRUE]
         ELSE IF lab.val > symbol THEN [v |-> past, hit |-> FALSE, corrupt |-> FALSE]
         ELSE LET nv == [off |-> lab.next, size |-> SizeOf(Vmm, lab.next),
                         typeL |-> Vmm[lab.next + 1],
                         hdr |-> HeaderSizeOf(Vmm, lab.next)]
              IN IF lab.val = symbol
                 THEN [v |-> nv, hit |-> TRUE, corrupt |-> FALSE]
                 ELSE symsearchMissEmpty(lab.next + nv.size, end, symbol, nv)

\* the symsearch loop of bcfindsymgo over one lane's struct body [pos, end):
\* cur is the lane of dstv as written so far
RECURSIVE symsearch(_, _, _, _)
symsearch(pos, end, symbol, cur) ==
    IF pos >= end THEN [v |-> cur, hit |-> FALSE, corrupt |-> FALSE]
    ELSE LET lab == ReadLabel(Vmm, pos, end) IN
         IF ~lab.ok THEN [v |-> cur, hit |-> FALSE, corrupt |-> TRUE]
         ELSE IF lab.val > symbol THEN [v |-> cur, hit |-> FALSE, corrupt |-> FALSE]
         ELSE LET nv == [off |-> lab.next, size |-> SizeOf(Vmm, lab.next),
                         typeL |-> Vmm[lab.next + 1],
                         hdr |-> HeaderSizeOf(Vmm, lab.next)]
              IN IF lab.val = symbol
                 THEN [v |-> nv, hit |-> TRUE, corrupt |-> FALSE]
                 ELSE symsearch(lab.next + nv.size, end, symbol, nv)

\* func bcfindsymgo(bc *bytecode, pc int) int
bcfindsymgo(b, pc) ==
    LET dstv   == bcword(b.compiled, pc)
        dstk   == bcword(b.compiled, pc + 2)
        srcb   == bcword(b.compiled, pc + 4)
        symbol == ReadLabel(b.compiled, pc + 6, pc + 10).val
        srck   == bcword(b.compiled, pc + 10)
        src    == b.vstack.v[srcb]
        old    == b.vstack.v[dstv]
        srcmask == b.vstack.k[srck]
        res == [i \in Lanes |->
                  LET zero == [off |-> src.offsets[i], size |-> 0, typeL |-> 0, hdr |-> 0]
                  IN IF Bit(srcmask, i)
                     THEN symsearch(src.offsets[i], src.offsets[i] + src.sizes[i],
                                    symbol, zero)
                     ELSE [v |-> zero, hit |-> FALSE, corrupt |-> FALSE]]
        bad == {i \in Lanes : res[i].corrupt}
        \* the lane at which "break outer" leaves the loop (bcLaneCount: never)
        stop == IF bad = {} THEN bcLaneCount
                ELSE CHOOSE i \in bad : \A j \in bad : i <= j
        newv == [offsets |-> [i \in Lanes |->
                                IF i <= stop THEN res[i].v.off ELSE old.offsets[i]],
                 sizes |-> [i \in Lanes |->
                                IF i <= stop THEN res[i].v.size ELSE old.sizes[i]],
                 typeL |-> [i \in Lanes |->
                                IF i <= stop THEN res[i].v.typeL ELSE old.typeL[i]],
                 headerSize |-> [i \in Lanes |->
                                IF i <= stop THEN res[i].v.hdr ELSE old.headerSize[i]]]
        retmask == MaskOf({i \in Lanes : i < stop /\ res[i].hit})
    IN [bc |-> [b EXCEPT !.vstack.v[dstv] = newv,
                         !.vstack.k[dstk] = retmask,
                         !.err = IF bad = {} THEN b.err ELSE bcerrCorrupt],
        pc |-> pc + 12]

\* a cmplt.i64@imm that stores the comparison without the input mask
bccmplti64immgoNoMask(b, pc) ==
    LET dstk == bcword(b.compiled, pc)
        arg0 == b.vstack.i[bcword(b.compiled, pc + 2)]
        arg1imm == bcword64(b.compiled, pc + 4)
    IN [bc |-> [b EXCEPT !.vstack.k[dstk] = MaskOf({i \in Lanes : arg0[i] < arg1imm})],
        pc |-> pc + 14]

\* func bccmplti64immgo(bc *bytecode, pc int) int
bccmplti64immgo(b, pc) ==
    LET dstk == bcword(b.compiled, pc)
        arg0 == b.vstack.i[bcword(b.compiled, pc + 2)]
        arg1imm == bcword64(b.compiled, pc + 4)
        mask == b.vstack.k[bcword(b.compiled, pc + 12)]
        retmask == {i \in Lanes : arg0[i] < arg1imm}
    IN [bc |-> [b EXCEPT !.vstack.k[dstk] = MaskOf(retmask \cap LanesOf(mask))],
        pc |-> pc + 14]

\* one lane of bccmpvi64immgo: the switch on ion.Type(src.typeL[i] >> 4);
\* rv is the lane result, cmp whether the lane's bit enters retmask
cmpvi64immLane(start, width, typeL, imm) ==
    IF width = 0 THEN [rv |-> 0, cmp |-> FALSE]
    ELSE IF TypeOf(typeL) = FloatType
         THEN LET f == ReadFloat64x16(Vmm, start) IN
              [rv |-> IF f < 16 * imm THEN -1 ELSE IF f > 16 * imm THEN 1 ELSE 0,
               cmp |-> TRUE]
    ELSE IF TypeOf(typeL) = IntType
         THEN LET j == ReadInt(Vmm, start) IN
              [rv |-> IF j < imm THEN -1 ELSE IF j > imm THEN 1 ELSE 0, cmp |-> TRUE]
    ELSE IF TypeOf(typeL) = UintType
         THEN LET u == ReadUint(Vmm, start) IN
              [rv |-> IF imm < 0 \/ u < imm THEN -1 ELSE IF u > imm THEN 1 ELSE 0,
               cmp |-> TRUE]
    ELSE [rv |-> 0, cmp |-> FALSE]

\* func bccmpvi64immgo(bc *bytecode, pc int) int
bccmpvi64immgo(b, pc) ==
    LET retslot == bcword(b.compiled, pc)
        retk == bcword(b.compiled, pc + 2)
        src  == b.vstack.v[bcword(b.compiled, pc + 4)]
        imm  == bcword64(b.compiled, pc + 6)
        mask == b.vstack.k[bcword(b.compiled, pc + 14)]
        res  == [i \in Lanes |->
                   IF Bit(mask, i)
                   THEN cmpvi64immLane(src.offsets[i], src.sizes[i], src.typeL[i], imm)
                   ELSE [rv |-> 0, cmp |-> FALSE]]
    IN [bc |-> [b EXCEPT !.vstack.i[retslot] = [i \in Lanes |-> res[i].rv],
                         !.vstack.k[retk] = MaskOf({i \in Lanes : res[i].cmp})],
        pc |-> pc + 16]

\* func bctuplego(bc *bytecode, pc int) int
bctuplego(b, pc) ==
    LET dstb == bcword(b.compiled, pc)
        dstk == bcword(b.compiled, pc + 2)
        src  == b.vstack.v[bcword(b.compiled, pc + 4)]
        mask == b.vstack.k[bcword(b.compiled, pc + 6)]
        keep == {i \in Lanes : Bit(mask, i) /\ TypeOf(src.typeL[i]) = StructType
                                /\ src.sizes[i] # 0}
    IN [bc |-> [b EXCEPT !.vstack.v[dstb].offsets =
                            [i \in Lanes |-> IF i \in keep
                                             THEN src.offsets[i] + src.headerSize[i] ELSE 0],
                         !.vstack.v[dstb].sizes =
                            [i \in Lanes |-> IF i \in keep
                                             THEN src.sizes[i] - src.headerSize[i] ELSE 0],
                         !.vstack.k[dstk] = MaskOf(keep)],
        pc |-> pc + 8]

\* func bcretgo(bc *bytecode, pc int) int
bcretgo(b, pc) ==
    [bc |-> [b EXCEPT !.err = 0,
                      !.outputLanes = b.validLanes,
                      !.auxpos = b.auxpos + OnesCount16(b.validLanes)],
     pc |-> pc]

\* ret.k advancing auxpos by the lanes of the mask it publishes
bcretkgoByOutput(b, pc) ==
    [bc |-> [b EXCEPT !.outputLanes = b.vstack.k[bcword(b.compiled, pc)],
                      !.auxpos = b.auxpos
                                 + OnesCount16(b.vstack.k[bcword(b.compiled, pc)])],
     pc |-> pc + 2]

\* func bcretkgo(bc *bytecode, pc int) int
bcretkgo(b, pc) ==
    [bc |-> [b EXCEPT !.outputLanes = b.vstack.k[bcword(b.compiled, pc)],
                      !.auxpos = b.auxpos + OnesCount16(b.validLanes)],
     pc |-> pc + 2]

\* func bcretbkgo(bc *bytecode, pc int) int
bcretbkgo(b, pc) ==
    LET breg == b.vstack.v[bcword(b.compiled, pc)] IN
    [bc |-> [b EXCEPT !.delims = [offsets |-> breg.offsets, sizes |-> breg.sizes],
                      !.outputLanes = b.vstack.k[bcword(b.compiled, pc + 2)],
                      !.auxpos = b.auxpos + OnesCount16(b.validLanes)],
     pc |-> pc + 4]

\* func bcretbhkgo(bc *bytecode, pc int) int
bcretbhkgo(b, pc) ==
    LET breg == b.vstack.v[bcword(b.compiled, pc)] IN
    [bc |-> [b EXCEPT !.delims = [offsets |-> breg.offsets, sizes |-> breg.sizes],
                      !.outputLanes = b.vstack.k[bcword(b.compiled, pc + 4)],
                      !.auxpos = b.auxpos + OnesCount16(b.validLanes)],
     pc |-> pc + 6]

\* func bcretskgo(bc *bytecode, pc int) int
bcretskgo(b, pc) ==
    LET sreg == b.vstack.v[bcword(b.compiled, pc)] IN
    [bc |-> [b EXCEPT !.sreg = [offsets |-> sreg.offsets, sizes |-> sreg.sizes],
                      !.outputLanes = b.vstack.k[bcword(b.compiled, pc + 2)],
                      !.auxpos = b.auxpos + OnesCount16(b.validLanes)],
     pc |-> pc + 4]

(***************************************************************************)
(* Opcodes without a portable handler run through runSingle on the         *)
(* assembly interpreter when the CPU has AVX-512.                          *)
(***************************************************************************)
\* a hash of the value bytes [pos, pos + n)
RECURSIVE hashBytes(_, _, _)
hashBytes(pos, n, acc) ==
    IF n = 0 THEN acc ELSE hashBytes(pos + 1, n - 1, (acc * 31 + Vmm[pos + 1] + 1) % 65521)

\* hashvalue: out {bcH}, in {bcV, bcK}
simdhashvalue(b, pc) ==
    LET dsth == bcword(b.compiled, pc)
        src  == b.vstack.v[bcword(b.compiled, pc + 2)]
        mask == b.vstack.k[bcword(b.compiled, pc + 4)]
    IN [b EXCEPT !.vstack.h[dsth] =
            [i \in Lanes |-> IF Bit(mask, i)
                             THEN hashBytes(src.offsets[i], src.sizes[i], 0) ELSE 0]]

\* unpack: out {bcS, bcK}, in {bcV, bcImmU16, bcK}: the body span of the
\* values whose type is the immediate
simdunpack(b, pc) ==
    LET dsts == bcword(b.compiled, pc)
        dstk == bcword(b.compiled, pc + 2)
        src  == b.vstack.v[bcword(b.compiled, pc + 4)]
        type == bcword(b.compiled, pc + 6)
        mask == b.vstack.k[bcword(b.compiled, pc + 8)]
        keep == {i \in Lanes : Bit(mask, i) /\ src.sizes[i] # 0
                                /\ TypeOf(src.typeL[i]) = type}
    IN [b EXCEPT !.vstack.v[dsts].offsets =
                    [i \in Lanes |-> IF i \in keep
                                     THEN src.offsets[i] + src.headerSize[i] ELSE 0],
                 !.vstack.v[dsts].sizes =
                    [i \in Lanes |-> IF i \in keep
                                     THEN src.sizes[i] - src.headerSize[i] ELSE 0],
                 !.vstack.k[dstk] = MaskOf(keep)]

\* the bytes ion.Buffer.WriteCanonicalFloat emits for the float64 whose bits
\* are v: 0.0 is written as the integer 0 (one byte, 0x20), a value that is
\* no integer as a float64 (0x48 and eight bytes)
CanonicalFloatSize(v) == IF v = 0 THEN 1 ELSE 9
CanonicalFloatTag(v) == IF v = 0 THEN 32 ELSE 72

\* box.f64: out {bcV}, in {bcS, bcK}, scratch: 9 * 16.  The body is that of
\* func bcboxf64go(bc *bytecode, pc int) int, whose registration as portable
\* handler is disabled: the opcode runs on the assembly interpreter only.
\* Scratch is addressed behind the document buffer.
bcboxf64go(b, pc) ==
    LET dst  == bcword(b.compiled, pc)
        src  == b.vstack.i[bcword(b.compiled, pc + 2)]
        mask == b.vstack.k[bcword(b.compiled, pc + 4)]
        p    == b.scratch
        want == 9 * bcLaneCount
        at(i) == Len(Vmm) + p + 9 * OnesCount16(mask % Pow2(i))
    IN IF b.scratchcap - p < want
       THEN [bc |-> [b EXCEPT !.err = bcerrMoreScratch], pc |-> pc + 6]
       ELSE [bc |-> [b EXCEPT
                !.scratch = p + want,
                !.vstack.v[dst] =
                    [offsets |-> [i \in Lanes |-> IF Bit(mask, i) THEN at(i) ELSE 0],
                     sizes |-> [i \in Lanes |->
                                  IF Bit(mask, i) THEN CanonicalFloatSize(src[i]) ELSE 0],
                     typeL |-> [i \in Lanes |->
                                  IF Bit(mask, i) THEN CanonicalFloatTag(src[i]) ELSE 0],
                     headerSize |-> [i \in Lanes |-> IF Bit(mask, i) THEN 1 ELSE 0]]],
             pc |-> pc + 6]

\* bcwidth: the operand bytes of the instruction whose opcode is at pc
bcwidth(b, pc) ==
    CASE bcop(b.compiled, pc) = "unpack" -> 10
      [] bcop(b.compiled, pc) = "hashvalue" -> 6
      [] bcop(b.compiled, pc) = "box.f64" -> 6
      [] OTHER -> 0

\* func runSingle(bc, alt *bytecode, pc int, k7 uint16) int
runSingle(b, pc) ==
    LET width == bcwidth(b, pc - 2) IN
    [bc |-> CASE bcop(b.compiled, pc - 2) = "unpack" -> simdunpack(b, pc)
              [] bcop(b.compiled, pc - 2) = "hashvalue" -> simdhashvalue(b, pc)
              [] bcop(b.compiled, pc - 2) = "box.f64" -> bcboxf64go(b, pc).bc
              [] OTHER -> b,
     pc |-> pc + width]

(***************************************************************************)
(* The dispatch loop.                                                      *)
(***************************************************************************)
\* a loop condition that looks at pc alone
evalRunningAnyErr(b, pc) == pc < Len(b.compiled)

\* the loop condition of eval
evalRunning(b, pc) == pc < Len(b.compiled) /\ b.err = 0

\* a loop body that runs an opcode without portable handler on the assembly
\* interpreter whatever the CPU, and reports not-supported afterwards
evalStepRunsUnsupported(b, pc, avx) ==
    LET op == bcop(b.compiled, pc)
        at == pc + 2
    IN CASE op = "init" -> bcinitgo(b, at)
         [] op = "ret" -> bcretgo(b, at)
         [] op = "ret.k" -> bcretkgo(b, at)
         [] op = "ret.b.k" -> bcretbkgo(b, at)
         [] op = "ret.s.k" -> bcretskgo(b, at)
         [] op = "ret.b.h.k" -> bcretbhkgo(b, at)
         [] op = "auxval" -> bcauxvalgo(b, at)
         [] op = "findsym" -> bcfindsymgo(b, at)
         [] op = "cmpv.i64@imm" -> bccmpvi64immgo(b, at)
         [] op = "cmplt.i64@imm" -> bccmplti64immgo(b, at)
         [] op = "tuple" -> bctuplego(b, at)
         [] OTHER -> IF avx THEN runSingle(b, at)
                     ELSE [bc |-> [runSingle(b, at).bc EXCEPT !.err = bcerrNotSupported],
                           pc |-> at]

\* a loop body that compares the declared scratch requirement of box.f64 with
\* the remaining capacity before anything else
evalStepChecksScratch(b, pc, avx) ==
    LET op == bcop(b.compiled, pc)
        at == pc + 2
    IN CASE op = "init" -> bcinitgo(b, at)
         [] op = "ret" -> bcretgo(b, at)
         [] op = "ret.k" -> bcretkgo(b, at)
         [] op = "ret.b.k" -> bcretbkgo(b, at)
         [] op = "ret.s.k" -> bcretskgo(b, at)
         [] op = "ret.b.h.k" -> bcretbhkgo(b, at)
         [] op = "auxval" -> bcauxvalgo(b, at)
         [] op = "findsym" -> bcfindsymgo(b, at)
         [] op = "cmpv.i64@imm" -> bccmpvi64immgo(b, at)
         [] op = "cmplt.i64@imm" -> bccmplti64immgo(b, at)
         [] op = "tuple" -> bctuplego(b, at)
         [] OTHER -> IF op = "box.f64" /\ b.scratchcap - b.scratch < 9 * bcLaneCount
                     THEN [bc |-> [b EXCEPT !.err = bcerrMoreScratch], pc |-> at]
                     ELSE IF avx THEN runSingle(b, at)
                     ELSE [bc |-> [b EXCEPT !.err = bcerrNotSupported], pc |-> at]

\* one iteration of eval's loop at pc; avx is cpu.X86.HasAVX512
evalStep(b, pc, avx) ==
    LET op == bcop(b.compiled, pc)
        at == pc + 2
    IN CASE op = "init" -> bcinitgo(b, at)
         [] op = "ret" -> bcretgo(b, at)
         [] op = "ret.k" -> bcretkgo(b, at)
         [] op = "ret.b.k" -> bcretbkgo(b, at)
         [] op = "ret.s.k" -> bcretskgo(b, at)
         [] op = "ret.b.h.k" -> bcretbhkgo(b, at)
         [] op = "auxval" -> bcauxvalgo(b, at)
         [] op = "findsym" -> bcfindsymgo(b, at)
         [] op = "cmpv.i64@imm" -> bccmpvi64immgo(b, at)
         [] op = "cmplt.i64@imm" -> bccmplti64immgo(b, at)
         [] op = "tuple" -> bctuplego(b, at)
         [] OTHER -> IF avx THEN runSingle(b, at)
                     ELSE [bc |-> [b EXCEPT !.err = bcerrNotSupported], pc |-> at]

\* an entry of eval that leaves scratch as it is
evalEnterKeepsScratch(b, resetScratch) == b

\* the entry of eval: pc := 0 and, with resetScratch, the scratch reset
evalEnter(b, resetScratch) ==
    IF resetScratch THEN [b EXCEPT !.scratch = b.savedlit] ELSE b

(***************************************************************************)
(* Inputs of a row driver: a delimiter vector of n rows whose kinds walk   *)
(* the catalogue from base in steps of step; bad (0: none) is the position *)
(* of a corrupt row.  Two auxiliary columns are bound: the row's first     *)
(* field value, and its second (MISSING, size 0, at every third row).      *)
(***************************************************************************)
InputParams ==
    [n : 0 .. MaxRows, base : 0 .. (NumRows - 1), step : 0 .. MaxStep,
     bad : {0, 2, bcLaneCount + 1}]

kindAt(par, i) ==
    IF par.bad = i THEN CorruptKind ELSE ((par.base + (i - 1) * par.step) % NumRows) + 1

Input(par) == [i \in 1 .. par.n |-> Doc(i, kindAt(par, i))]

\* the first field's value of the row at d: its label takes one byte
firstValue(d) == <<d[1] + 1, SizeOf(Vmm, d[1] + 1)>>
\* the value after it
secondValue(d) ==
    LET at == d[1] + 1 + SizeOf(Vmm, d[1] + 1) + 1 IN <<at, SizeOf(Vmm, at)>>

AuxInput(par) ==
    << [i \in 1 .. par.n |-> firstValue(Doc(i, kindAt(par, i)))],
       [i \in 1 .. par.n |->
           IF i % 3 = 0 \/ kindAt(par, i) = CorruptKind THEN <<0, 0>>
           ELSE secondValue(Doc(i, kindAt(par, i)))] >>

(***************************************************************************)
(* Programs.                                                               *)
(***************************************************************************)
\* every valid lane survives
ProgAll == InsInit(0, 0) \o InsRet

\* WHERE field 9 < 4
ProgField9 ==
    Concat(<<InsInit(0, 0), InsFindsym(1, 1, 0, 9, 0), InsCmpvi64imm(0, 2, 1, 4, 1),
             InsCmplti64imm(3, 0, 0, 2), InsRetk(3)>>)

\* WHERE the second auxiliary column is not MISSING
ProgAux == Concat(<<InsInit(0, 0), InsAuxval(1, 1, 1), InsRetk(1)>>)

\* rows whose field 12 is a struct with a field 9; publishes the inner struct
ProgNested ==
    Concat(<<InsInit(0, 0), InsFindsym(1, 1, 0, 12, 0), InsTuple(2, 2, 1, 1),
             InsFindsym(1, 3, 2, 9, 2), InsRetbk(2, 3)>>)

(***************************************************************************)
(* State.                                                                  *)
(***************************************************************************)
VARIABLES
    bc,     \* the bytecode object: program, register stack, vmState, err, ...
    pc,     \* eval's program counter
    phase,  \* "call": in the driver; "eval": inside eval; "done": returned
    drv,    \* the running driver's frame: its arguments and locals
    hist,   \* what was observed: the input and, per batch, its entry state
    avx     \* cpu.X86.HasAVX512

vars == <<bc, pc, phase, drv, hist, avx>>

\* len(bc.savedlit): the literals of the program, the prefix of scratch
LitLen == 8
\* cap(bc.scratch): room for the literals and two reservations of 9 * 16 bytes
ScratchCap == 300

\* a bytecode object prepared for a scan: auxpos 0, no error
NewBytecode(prog, aux) ==
    [compiled |-> prog, vstack |-> ZeroStack, delims |-> ZeroB,
     validLanes |-> 0, outputLanes |-> 0, sreg |-> ZeroB,
     err |-> 0, auxpos |-> 0, auxvals |-> aux, scratch |-> LitLen, savedlit |-> LitLen,
     scratchcap |-> ScratchCap]

NewHist(par) == [par |-> par, batches |-> <<>>]

\* the record of a batch at the entry of eval
BatchEntry(start, n, b) ==
    [start |-> start, n |-> n, valid |-> b.validLanes, lanes |-> b.delims, out |-> 0]

\* eval's loop body, one instruction per step
EvalInstr ==
    /\ phase = "eval"
    /\ evalRunning(bc, pc)
    /\ LET r == evalStep(bc, pc, avx) IN bc' = r.bc /\ pc' = r.pc
    /\ UNCHANGED <<phase, drv, hist, avx>>

\* eval has returned to the driver
evalReturned == phase = "eval" /\ ~evalRunning(bc, pc)

(***************************************************************************)
(* func evalfiltergo(bc *bytecode, delims []vmref) int                     *)
(***************************************************************************)
RECURSIVE compressNoBatchStart(_, _, _, _, _, _, _, _)
\* compress with delims[j] = delims[k] instead of next[k]: the batch start is lost
compressNoBatchStart(d, aux, j, i, k, n, mask, apos) ==
    IF k = n \/ mask = 0 THEN [delims |-> d, auxvals |-> aux, j |-> j]
    ELSE IF mask % 2 = 1
         THEN compressNoBatchStart([d EXCEPT ![j + 1] = d[k + 1]],
                       [l \in DOMAIN aux |-> [aux[l] EXCEPT ![j + 1] = aux[l][apos + k + 1]]],
                       j + 1, i, k + 1, n, mask \div 2, apos)
         ELSE compressNoBatchStart(d, aux, j, i, k + 1, n, mask \div 2, apos)

RECURSIVE compressNoApos(_, _, _, _, _, _, _, _)
\* compress with auxvals[l][j] = auxvals[l][k]: apos is lost
compressNoApos(d, aux, j, i, k, n, mask, apos) ==
    IF k = n \/ mask = 0 THEN [delims |-> d, auxvals |-> aux, j |-> j]
    ELSE IF mask % 2 = 1
         THEN compressNoApos([d EXCEPT ![j + 1] = d[i + k + 1]],
                       [l \in DOMAIN aux |-> [aux[l] EXCEPT ![j + 1] = aux[l][k + 1]]],
                       j + 1, i, k + 1, n, mask \div 2, apos)
         ELSE compressNoApos(d, aux, j, i, k + 1, n, mask \div 2, apos)

\* the "compress delims + auxvals" loop from lane k on; next aliases d[i:]
RECURSIVE compress(_, _, _, _, _, _, _, _)
compress(d, aux, j, i, k, n, mask, apos) ==
    IF k = n \/ mask = 0 THEN [delims |-> d, auxvals |-> aux, j |-> j]
    ELSE IF mask % 2 = 1
         THEN compress([d EXCEPT ![j + 1] = d[i + k + 1]],
                       [l \in DOMAIN aux |-> [aux[l] EXCEPT ![j + 1] = aux[l][apos + k + 1]]],
                       j + 1, i, k + 1, n, mask \div 2, apos)
         ELSE compress(d, aux, j, i, k + 1, n, mask \div 2, apos)

\* the loop head up to the call of eval in evalfiltergolanes
FilterBatch ==
    /\ phase = "call" /\ drv.name = "filter"
    /\ drv.i < Len(drv.delims)
    /\ LET n    == Min(Len(drv.delims) - drv.i, bcLaneCount)
           next == SubSeq(drv.delims, drv.i + 1, drv.i + n)
           b    == evalEnter([bc EXCEPT !.delims = setvmrefB(next),
                                        !.validLanes = LowMask(n),
                                        !.outputLanes = 0], TRUE)
       IN /\ bc' = b
          /\ drv' = [drv EXCEPT !.n = n, !.apos = bc.auxpos]
          /\ hist' = [hist EXCEPT !.batches = Append(@, BatchEntry(drv.i, n, b))]
    /\ pc' = 0
    /\ phase' = "eval"
    /\ UNCHANGED avx

\* from the return of eval to the end of the loop body
FilterPost ==
    /\ evalReturned /\ drv.name = "filter"
    /\ LET mask == IF bc.err # 0 THEN 0 ELSE bc.outputLanes IN
       IF bc.err # 0
       THEN /\ drv' = [drv EXCEPT !.ret = <<drv.j>>]
            /\ phase' = "done"
            /\ UNCHANGED <<bc, hist>>
       ELSE LET c == compress(drv.delims, bc.auxvals, drv.j, drv.i, 0, drv.n, mask,
                              drv.apos)
            IN /\ drv' = [drv EXCEPT !.delims = c.delims, !.j = c.j, !.i = drv.i + drv.n]
               /\ bc' = [bc EXCEPT !.auxvals = c.auxvals]
               /\ hist' = [hist EXCEPT !.batches[Len(hist.batches)].out = mask]
               /\ phase' = "call"
    /\ UNCHANGED <<pc, avx>>

\* the loop ends: return j
FilterReturn ==
    /\ phase = "call" /\ drv.name = "filter"
    /\ drv.i >= Len(drv.delims)
    /\ drv' = [drv EXCEPT !.ret = <<drv.j>>]
    /\ phase' = "done"
    /\ UNCHANGED <<bc, pc, hist, avx>>

FilterPrograms == {ProgAll, ProgField9, ProgAux, ProgNested}

\* the call evalfiltergo(bc, delims) of a scan
FilterStart(par, prog) ==
    /\ bc = NewBytecode(prog, AuxInput(par))
    /\ pc = 0
    /\ phase = "call"
    /\ drv = [name |-> "filter", delims |-> Input(par), i |-> 0, j |-> 0,
              n |-> 0, apos |-> 0, ret |-> <<>>]
    /\ hist = NewHist(par)
    /\ avx = FALSE

InitFilter == \E par \in InputParams, prog \in FilterPrograms : FilterStart(par, prog)

NextFilter == FilterBatch \/ EvalInstr \/ FilterPost \/ FilterReturn

SpecFilter == InitFilter /\ [][NextFilter]_vars

(***************************************************************************)
(* What the batches observed: the input positions (from 1) of the rows     *)
(* whose lane bit is set in the output mask of their batch, in order.      *)
(***************************************************************************)
batchSurvivors(bt) ==
    SelectSeq([k \in 1 .. bt.n |-> bt.start + k],
              LAMBDA x : Bit(bt.out, x - bt.start - 1))

SurvivorIdx(batches) == Concat([x \in 1 .. Len(batches) |-> batchSurvivors(batches[x])])

\* C1: when no batch sets the error field, evalfiltergo returns j and
\* delims[0:j] is exactly the sequence of input rows whose lane bit is set in
\* the output mask of their batch, in input order.
C1_FilterSurvivors ==
    (drv.name = "filter" /\ phase = "done" /\ bc.err = 0) =>
        LET idx == SurvivorIdx(hist.batches)
            inp == Input(hist.par)
        IN /\ drv.ret = <<Len(idx)>>
           /\ SubSeq(drv.delims, 1, drv.ret[1]) = [x \in 1 .. Len(idx) |-> inp[idx[x]]]

\* a two-batch filter pass that dropped rows of the first batch and kept rows
\* of the second
C1_Witness ==
    /\ drv.name = "filter" /\ phase = "done" /\ bc.err = 0
    /\ Len(hist.batches) = 2
    /\ hist.batches[1].out \notin {0, LowMask(bcLaneCount)}
    /\ hist.batches[2].out # 0
    /\ drv.ret[1] < Len(drv.delims)

\* C8: the auxiliary columns are compacted with the delimiters: for every
\* output index below j and every column, the aux entry is the one of the
\* input row now stored at that index; and the delimiter and aux entries of
\* the rows from the current batch on are still the input's.
C8_AuxCompaction ==
    drv.name = "filter" =>
        LET idx == SurvivorIdx(hist.batches)
            inp == Input(hist.par)
            aux == AuxInput(hist.par)
        IN /\ drv.j = Len(idx)
           /\ \A x \in 1 .. drv.j :
                /\ drv.delims[x] = inp[idx[x]]
                /\ \A l \in DOMAIN aux : bc.auxvals[l][x] = aux[l][idx[x]]
           /\ \A r \in (drv.i + 1) .. Len(inp) :
                /\ drv.delims[r] = inp[r]
                /\ \A l \in DOMAIN aux : bc.auxvals[l][r] = aux[l][r]

\* a two-batch pass of the program that reads an aux column, with survivors
\* moved to a lower index in both batches
C8_Witness ==
    /\ drv.name = "filter" /\ phase = "done" /\ bc.err = 0
    /\ bc.compiled = ProgAux
    /\ Len(hist.batches) = 2
    /\ hist.batches[1].out \notin {0, LowMask(bcLaneCount)}
    /\ hist.batches[2].out # 0

(***************************************************************************)
(* Single opcodes on arbitrary register contents.  Lane i of the base      *)
(* register (slot 0) holds the row at position i + 1 of a delimiter        *)
(* vector; value register 1 holds the pick-th field's value of each row    *)
(* (size 0, MISSING, at every fifth lane); scalar register 0 holds small   *)
(* signed integers; mask register 0 is the input mask.                     *)
(***************************************************************************)
OpsMasks ==
    {0, LowMask(bcLaneCount), LowMask(5), MaskOf({i \in Lanes : i % 2 = 1}),
     MaskOf({0, bcLaneCount - 1})}

OpsParams ==
    [base : 0 .. (NumRows - 1), step : 0 .. MaxStep, bad : {0, 1, 3},
     mask : OpsMasks, pick : {1, 2}]

OpsRow(par, lane) == Doc(lane + 1, kindAt(par, lane + 1))

OpsValue(par, lane) ==
    IF lane % 5 = 4 THEN <<0, 0>>
    ELSE IF par.pick = 1 \/ kindAt(par, lane + 1) = CorruptKind
         THEN firstValue(OpsRow(par, lane))
         ELSE secondValue(OpsRow(par, lane))

OpsScalar(lane) == ((lane * 7) % 5) - 2

OpsStack(par) ==
    [ZeroStack EXCEPT
        !.v[0] = [ZeroV EXCEPT !.offsets = [i \in Lanes |-> OpsRow(par, i)[1]],
                               !.sizes = [i \in Lanes |-> OpsRow(par, i)[2]]],
        !.v[1] = setvmref([x \in 1 .. bcLaneCount |-> OpsValue(par, x - 1)]),
        !.k[0] = par.mask,
        !.i[0] = [i \in Lanes |-> OpsScalar(i)]]

InitOps ==
    \E par \in OpsParams :
        /\ bc = [NewBytecode(<<>>, <<>>) EXCEPT !.vstack = OpsStack(par)]
        /\ pc = 0
        /\ phase = "call"
        /\ drv = [name |-> "ops", op |-> "", dst |-> 0, dstk |-> 0, arg |-> 0]
        /\ hist = NewHist(par)
        /\ avx = FALSE

\* run the handler of the one instruction ins, whose operands start at 2
OpRun(ins, r, frame) ==
    /\ phase = "call" /\ drv.name = "ops"
    /\ bc' = r.bc
    /\ pc' = r.pc
    /\ phase' = "done"
    /\ drv' = frame
    /\ UNCHANGED <<hist, avx>>

\* findsym v[dst], k[dstk] = b[0], target, k[0]; aliased: dst = 0, dstk = 0
OpFindsym ==
    \E target \in {5, 9, 10, 12, 20, 21}, alias \in BOOLEAN :
        LET dst  == IF alias THEN 0 ELSE 2
            dstk == IF alias THEN 0 ELSE 1
            ins  == InsFindsym(dst, dstk, 0, target, 0)
        IN OpRun(ins, bcfindsymgo([bc EXCEPT !.compiled = ins], 2),
                 [name |-> "ops", op |-> "findsym", dst |-> dst, dstk |-> dstk,
                  arg |-> target])

\* tuple b[dst], k[dstk] = v[1], k[0]; aliased: dst = 1, dstk = 0
OpTuple ==
    \E alias \in BOOLEAN :
        LET dst  == IF alias THEN 1 ELSE 2
            dstk == IF alias THEN 0 ELSE 1
            ins  == InsTuple(dst, dstk, 1, 0)
        IN OpRun(ins, bctuplego([bc EXCEPT !.compiled = ins], 2),
                 [name |-> "ops", op |-> "tuple", dst |-> dst, dstk |-> dstk, arg |-> 0])

\* cmpv.i64@imm i[1], k[dstk] = v[1], imm, k[0]; aliased: dstk = 0
OpCmpvi64imm ==
    \E imm \in {-3, -2, 0, 3, 4}, alias \in BOOLEAN :
        LET dstk == IF alias THEN 0 ELSE 1
            ins  == InsCmpvi64imm(1, dstk, 1, imm, 0)
        IN OpRun(ins, bccmpvi64immgo([bc EXCEPT !.compiled = ins], 2),
                 [name |-> "ops", op |-> "cmpv.i64@imm", dst |-> 1, dstk |-> dstk,
                  arg |-> imm])

\* cmplt.i64@imm k[dstk] = i[0], imm, k[0]; aliased: dstk = 0
OpCmplti64imm ==
    \E imm \in {-1, 0, 1}, alias \in BOOLEAN :
        LET dstk == IF alias THEN 0 ELSE 1
            ins  == InsCmplti64imm(dstk, 0, imm, 0)
        IN OpRun(ins, bccmplti64immgo([bc EXCEPT !.compiled = ins], 2),
                 [name |-> "ops", op |-> "cmplt.i64@imm", dst |-> 0, dstk |-> dstk,
                  arg |-> imm])

NextOps == OpFindsym \/ OpTuple \/ OpCmpvi64imm \/ OpCmplti64imm

SpecOps == InitOps /\ [][NextOps]_vars

(***************************************************************************)
(* What the catalogue says about a row, independently of the decoders:     *)
(* labels below 128 take one byte, a value of up to 14 bytes has a         *)
(* one-byte header and a longer one (below 128 bytes of content) two.      *)
(***************************************************************************)
FieldIdx(fields, target) ==
    IF \E x \in 1 .. Len(fields) : fields[x].l = target
    THEN CHOOSE x \in 1 .. Len(fields) : fields[x].l = target
    ELSE 0

RECURSIVE FieldsLen(_, _)
FieldsLen(fields, n) ==
    IF n = 0 THEN 0 ELSE FieldsLen(fields, n - 1) + 1 + Len(fields[n].v)

ValueHeader(value) == IF Len(value) <= 14 THEN 1 ELSE 2

OpsKind(lane) == kindAt(hist.par, lane + 1)

OpsActive(lane) == Bit(hist.par.mask, lane)

\* the label scan of the lane fails: the corrupt row holds field 5 and then
\* a truncated label
OpsScanFails(lane, target) ==
    OpsActive(lane) /\ OpsKind(lane) = CorruptKind /\ target > 5

OpsDone(op) == drv.name = "ops" /\ phase = "done" /\ drv.op = op

\* the lane's mask bit and ValueReg are what the row's fields say
FindsymLaneExact(lane) ==
    LET fields == RowFields[OpsKind(lane)]
        x      == FieldIdx(fields, drv.arg)
        dstv   == bc.vstack.v[drv.dst]
    IN /\ Bit(bc.vstack.k[drv.dstk], lane) <=> x # 0
       /\ x # 0 =>
            /\ dstv.offsets[lane] = OpsRow(hist.par, lane)[1] + FieldsLen(fields, x - 1) + 1
            /\ dstv.sizes[lane] = Len(fields[x].v)
            /\ dstv.typeL[lane] = fields[x].v[1]
            /\ dstv.headerSize[lane] = ValueHeader(fields[x].v)

\* C3 (as stated): findsym sets the mask bit of every active lane with
\* ascending labels iff the target is among the labels, and then the lane's
\* ValueReg is that field's offset, size, type byte and header size.
C3_FindsymEveryLane ==
    OpsDone("findsym") =>
        \A i \in Lanes :
            (OpsActive(i) /\ OpsKind(i) # CorruptKind) => FindsymLaneExact(i)

\* C3 (amended): the same for every active lane with ascending labels that
\* no lane whose label scan fails precedes; the lanes after such a lane are
\* never searched, and their mask bits are clear.
C3_FindsymUpToCorrupt ==
    OpsDone("findsym") =>
        \A i \in Lanes :
            (OpsActive(i) /\ OpsKind(i) # CorruptKind) =>
                IF \E j \in 0 .. i : OpsScanFails(j, drv.arg)
                THEN ~Bit(bc.vstack.k[drv.dstk], i)
                ELSE FindsymLaneExact(i)

C3_Witness ==
    /\ OpsDone("findsym")
    /\ bc.err = bcerrCorrupt
    /\ \E i, j, l \in Lanes :
          /\ i < j /\ j < l
          /\ OpsActive(i) /\ Bit(bc.vstack.k[drv.dstk], i)
          /\ OpsScanFails(j, drv.arg)
          /\ OpsActive(l) /\ FieldIdx(RowFields[OpsKind(l)], drv.arg) # 0

\* the numeric value of the lane's operand of cmpv.i64@imm, times 16 (the
\* catalogue's floats are multiples of 1/16)
OpsNumeric(v, lane) ==
    TypeOf(v.typeL[lane]) \in {UintType, IntType, FloatType}

OpsNumber16(v, lane) ==
    IF TypeOf(v.typeL[lane]) = FloatType THEN ReadFloat64x16(Vmm, v.offsets[lane])
    ELSE IF TypeOf(v.typeL[lane]) = IntType THEN 16 * ReadInt(Vmm, v.offsets[lane])
    ELSE 16 * ReadUint(Vmm, v.offsets[lane])

Sign(x) == IF x < 0 THEN -1 ELSE IF x > 0 THEN 1 ELSE 0

\* C4 (as stated): cmpv.i64@imm gives every active lane with a non-empty
\* numeric value v a set comparable bit and the result -1, 0 or +1 as
\* v < imm, v = imm or v > imm; a lane with a non-numeric value gets the
\* result 0 and a clear bit.
C4_CmpvSign ==
    OpsDone("cmpv.i64@imm") =>
        LET v == OpsStack(hist.par).v[1] IN
        \A i \in Lanes :
            (OpsActive(i) /\ v.sizes[i] # 0) =>
                IF OpsNumeric(v, i)
                THEN /\ Bit(bc.vstack.k[drv.dstk], i)
                     /\ bc.vstack.i[drv.dst][i] = Sign(OpsNumber16(v, i) - 16 * drv.arg)
                ELSE /\ ~Bit(bc.vstack.k[drv.dstk], i)
                     /\ bc.vstack.i[drv.dst][i] = 0

\* C9: the output mask of findsym, tuple, cmpv.i64@imm and cmplt.i64@imm is
\* a subset of the input mask, whatever the registers hold and also when
\* the output registers are the input registers.
C9_MaskContract ==
    (drv.name = "ops" /\ phase = "done") =>
        \A i \in Lanes : Bit(bc.vstack.k[drv.dstk], i) => OpsActive(i)

C9_Witness ==
    /\ OpsDone("cmplt.i64@imm")
    /\ drv.dstk = 0
    /\ bc.vstack.k[0] \notin {0, hist.par.mask}
    /\ \E i \in Lanes : ~OpsActive(i) /\ OpsScalar(i) < drv.arg

(***************************************************************************)
(* Inputs of the other row drivers: the same delimiter vectors at the      *)
(* lengths around a batch boundary.                                        *)
(***************************************************************************)
DriverSizes == {0, 1, bcLaneCount - 1, bcLaneCount, bcLaneCount + 1, MaxRows}

DriverParams ==
    [n : DriverSizes, base : {0, 3}, step : 0 .. MaxStep, bad : {0, 2, bcLaneCount + 1}]

\* the record of a batch once eval has returned: the output mask and the
\* register stack the driver reads
BatchExit(entry, b) ==
    [start |-> entry.start, n |-> entry.n, valid |-> entry.valid, lanes |-> entry.lanes,
     out |-> b.outputLanes, err |-> b.err, regs |-> b.vstack, sreg |-> b.sreg]

\* DISTINCT field 9: the hash of the field is left in hash slot 0
ProgDedup ==
    Concat(<<InsInit(0, 0), InsFindsym(1, 1, 0, 9, 0), InsHashvalue(0, 1, 1),
             InsRetbhk(0, 0, 1)>>)

(***************************************************************************)
(* func evaldedupgo(bc *bytecode, delims []vmref, hashes []uint64,         *)
(*                  tree *radixTree64, slot int) int                       *)
(***************************************************************************)
\* radixTree64.Offset: the position of the hash's entry, negative when absent
treeOffset(tree, hash) == IF hash \in tree THEN 0 ELSE -1

\* a lane is kept whether or not the tree holds its hash
dedupKeepsActive(outmask, i, tree, hash) == Bit(outmask, i)

\* the negation of the "continue" condition of the lane loop
dedupKeeps(outmask, i, tree, hash) == Bit(outmask, i) /\ ~(treeOffset(tree, hash) >= 0)

\* the lane loop from lane i on; indelims aliases d[pos:]
RECURSIVE dedupLanes(_, _, _, _, _, _, _, _, _, _, _)
dedupLanes(d, hashes, aux, dout, pos, i, n, outmask, outhashes, tree, apos) ==
    IF i = n THEN [delims |-> d, hashes |-> hashes, auxvals |-> aux, dout |-> dout]
    ELSE IF dedupKeeps(outmask, i, tree, outhashes[i])
         THEN dedupLanes([d EXCEPT ![dout + 1] = d[pos + i + 1]],
                         [hashes EXCEPT ![dout + 1] = outhashes[i]],
                         [l \in DOMAIN aux |-> [aux[l] EXCEPT ![dout + 1] = aux[l][apos + i + 1]]],
                         dout + 1, pos, i + 1, n, outmask, outhashes, tree, apos)
         ELSE dedupLanes(d, hashes, aux, dout, pos, i + 1, n, outmask, outhashes, tree, apos)

\* the loop head up to the call of eval
DedupBatch ==
    /\ phase = "call" /\ drv.name = "dedup"
    /\ drv.pos < Len(drv.delims)
    /\ LET n == Min(Len(drv.delims) - drv.pos, bcLaneCount)
           b == evalEnter([bc EXCEPT
                              !.delims = setvmrefB(SubSeq(drv.delims, drv.pos + 1, drv.pos + n)),
                              !.validLanes = LowMask(n),
                              !.outputLanes = 0], TRUE)
       IN /\ bc' = b
          /\ drv' = [drv EXCEPT !.n = n, !.apos = bc.auxpos]
          /\ hist' = [hist EXCEPT !.batches = Append(@, BatchEntry(drv.pos, n, b))]
    /\ pc' = 0
    /\ phase' = "eval"
    /\ UNCHANGED avx

\* from the return of eval to the end of the loop body
DedupPost ==
    /\ evalReturned /\ drv.name = "dedup"
    /\ hist' = [hist EXCEPT !.batches[Len(hist.batches)] = BatchExit(@, bc)]
    /\ IF bc.err # 0
       THEN /\ drv' = [drv EXCEPT !.ret = <<0>>]
            /\ phase' = "done"
            /\ UNCHANGED bc
       ELSE LET c == dedupLanes(drv.delims, drv.hashes, bc.auxvals, drv.dout, drv.pos, 0,
                                drv.n, bc.outputLanes, bc.vstack.h[drv.slot], drv.tree,
                                drv.apos)
            IN /\ drv' = [drv EXCEPT !.delims = c.delims, !.hashes = c.hashes,
                                     !.dout = c.dout, !.pos = drv.pos + drv.n]
               /\ bc' = [bc EXCEPT !.auxvals = c.auxvals]
               /\ phase' = "call"
    /\ UNCHANGED <<pc, avx>>

\* the loop ends: return dout
DedupReturn ==
    /\ phase = "call" /\ drv.name = "dedup"
    /\ drv.pos >= Len(drv.delims)
    /\ drv' = [drv EXCEPT !.ret = <<drv.dout>>]
    /\ phase' = "done"
    /\ UNCHANGED <<bc, pc, hist, avx>>

\* the hash of an encoded value, as hashvalue computes it over its bytes
RECURSIVE HashOf(_, _)
HashOf(value, acc) ==
    IF value = <<>> THEN acc ELSE HashOf(Tail(value), (acc * 31 + Head(value) + 1) % 65521)

\* the trees a scan starts from: empty, or holding the hashes of 3 and 3.5
DedupTrees == {{}, {HashOf(<<33, 3>>, 0), HashOf(<<72, 64, 12, 0, 0, 0, 0, 0, 0>>, 0)}}

\* the call evaldedupgo(bc, delims, hashes, tree, 0) of a scan
DedupStart(par, tree, hw) ==
    /\ bc = NewBytecode(ProgDedup, AuxInput(par))
    /\ pc = 0
    /\ phase = "call"
    /\ drv = [name |-> "dedup", delims |-> Input(par), hashes |-> SeqOf(par.n, 0),
              tree |-> tree, slot |-> 0, pos |-> 0, dout |-> 0, n |-> 0, apos |-> 0,
              ret |-> <<>>]
    /\ hist = NewHist(par)
    /\ avx = hw

InitDedup ==
    \E par \in DriverParams, tree \in DedupTrees, hw \in BOOLEAN : DedupStart(par, tree, hw)

NextDedup == DedupBatch \/ EvalInstr \/ DedupPost \/ DedupReturn

SpecDedup == InitDedup /\ [][NextDedup]_vars

\* the input positions (from 1) of the lanes of a batch that are active on
\* return, in order
batchActive(bt) ==
    SelectSeq([k \in 1 .. bt.n |-> bt.start + k], LAMBDA x : Bit(bt.out, x - bt.start - 1))

ActiveIdx(batches) == Concat([x \in 1 .. Len(batches) |-> batchActive(batches[x])])

\* the hash the program left for the input row at position r
RowHash(batches, r) ==
    LET bt == batches[((r - 1) \div bcLaneCount) + 1]
    IN bt.regs.h[drv.slot][(r - 1) % bcLaneCount]

DedupDone == drv.name = "dedup" /\ phase = "done" /\ bc.err = 0

\* C2 (as stated): the output of evaldedupgo holds at most one row per
\* distinct hash, the first occurrence of each hash among the active rows.
C2_OneRowPerHash ==
    DedupDone =>
        LET act   == ActiveIdx(hist.batches)
            inp   == Input(hist.par)
            first == SelectSeq(act, LAMBDA r :
                        \A q \in 1 .. (r - 1) :
                            (\E x \in 1 .. Len(act) : act[x] = q) =>
                                RowHash(hist.batches, q) # RowHash(hist.batches, r))
        IN /\ \A p, q \in 1 .. drv.ret[1] : p # q => drv.hashes[p] # drv.hashes[q]
           /\ drv.ret[1] = Len(first)
           /\ \A x \in 1 .. Len(first) :
                 /\ drv.delims[x] = inp[first[x]]
                 /\ drv.hashes[x] = RowHash(hist.batches, first[x])

\* C2 (amended): the output of evaldedupgo holds, in input order, the active
\* rows whose hash the tree did not hold when the call began, with their
\* hashes; rows that repeat a hash within the call are all kept.
C2_DropsRowsInTree ==
    DedupDone =>
        LET act  == ActiveIdx(hist.batches)
            inp  == Input(hist.par)
            kept == SelectSeq(act, LAMBDA r : RowHash(hist.batches, r) \notin drv.tree)
        IN /\ drv.ret[1] = Len(kept)
           /\ \A x \in 1 .. Len(kept) :
                 /\ drv.delims[x] = inp[kept[x]]
                 /\ drv.hashes[x] = RowHash(hist.batches, kept[x])

C2_Witness ==
    /\ DedupDone
    /\ Len(hist.batches) = 2
    /\ drv.tree # {}
    /\ drv.ret[1] < Len(ActiveIdx(hist.batches))
    /\ \E p, q \in 1 .. drv.ret[1] :
          /\ p < q /\ drv.hashes[p] = drv.hashes[q]
          /\ drv.hashes[p] = HashOf(<<49, 2>>, 0)

(***************************************************************************)
(* func evalprojectgo(bc *bytecode, delims []vmref, dst []byte,            *)
(*                    symbols []syminfo) (int, int)                        *)
(* dst is the output buffer, len(dst) its capacity; dstDisp is its         *)
(* displacement in vmm; a syminfo is (value, size, slot).                  *)
(***************************************************************************)
\* func getTLVSize(length uint) uint
getTLVSize(length) ==
    IF length < 14 THEN 1
    ELSE IF length < 128 THEN 2
    ELSE IF length < 16384 THEN 3
    ELSE IF length < 2097152 THEN 4
    ELSE IF length < 268435456 THEN 5
    ELSE 6

\* byte(x&0xFF) | 0x80
LowByteStop(x) == IF x % 256 >= 128 THEN x % 256 ELSE (x % 256) + 128

\* func encodeSymbol(dst []byte, offset int, symbol ion.Symbol) int: the
\* bytes it stores at dst[offset:]; it returns their number
encodeSymbol(symbol) ==
    IF symbol < 128 THEN <<LowByteStop(symbol)>>
    ELSE IF symbol < 16384 THEN <<(symbol \div 128) % 128, LowByteStop(symbol)>>
    ELSE IF symbol < 2097152
         THEN <<(symbol \div 16384) % 128, (symbol \div 128) % 128, LowByteStop(symbol)>>
    ELSE <<(symbol \div 2097152) % 128, (symbol \div 16384) % 128, (symbol \div 128) % 128,
           LowByteStop(symbol)>>

\* func encodeTLVUnsafe(dst []byte, offset int, valueType ion.Type,
\* length uint) int: the bytes it stores at dst[offset:]; it returns their number
encodeTLVUnsafe(valueType, length) ==
    LET tag == (valueType * 16) % 256 IN
    IF length < 14 THEN <<tag + length>>
    ELSE IF length < 128 THEN <<tag + 14, LowByteStop(length)>>
    ELSE IF length < 16384 THEN <<tag + 14, (length \div 128) % 128, LowByteStop(length)>>
    ELSE IF length < 2097152
         THEN <<tag + 14, (length \div 16384) % 128, (length \div 128) % 128,
                LowByteStop(length)>>
    ELSE <<tag + 14, (length \div 2097152) % 128, (length \div 16384) % 128,
           (length \div 128) % 128, LowByteStop(length)>>

\* dst with bytes stored from offset on
store(dst, offset, bytes) ==
    SubSeq(dst, 1, offset) \o bytes \o SubSeq(dst, offset + Len(bytes) + 1, Len(dst))

\* an item's term of contentSize that also counts the label of a MISSING value
symbolContributionAlways(sym, vals, lane) == sym.size + vals.sizes[lane]

\* an item's term of contentSize: nothing when the value is MISSING
symbolContribution(sym, vals, lane) ==
    IF sym.size # 0 /\ vals.sizes[lane] # 0 THEN sym.size + vals.sizes[lane] ELSE 0

\* the contentSize loop over symbols[i:]
RECURSIVE contentSizeFrom(_, _, _, _)
contentSizeFrom(symbols, i, vstack, lane) ==
    IF i > Len(symbols) THEN 0
    ELSE symbolContribution(symbols[i], vstack.v[symbols[i].slot], lane)
         + contentSizeFrom(symbols, i + 1, vstack, lane)

\* the serialisation loop over symbols[i:]: the bytes appended for the lane
RECURSIVE serializeFrom(_, _, _, _)
serializeFrom(symbols, i, vstack, lane) ==
    IF i > Len(symbols) THEN <<>>
    ELSE LET vals == vstack.v[symbols[i].slot]
             valOffset == vals.offsets[lane]
             valLength == vals.sizes[lane]
         IN (IF symbols[i].size # 0 /\ valLength # 0
             THEN encodeSymbol(symbols[i].value)
                  \o SubSeq(Vmm, valOffset + 1, valOffset + valLength)
             ELSE <<>>)
            \o serializeFrom(symbols, i + 1, vstack, lane)

\* "return initialDstLength, rowsProcessed" of a full output buffer, with the
\* offset reached and the lanes done
projectFullPartial(initialDstLength, rowsProcessed, offset, lane) ==
    <<offset, rowsProcessed + lane>>

\* "return initialDstLength, rowsProcessed" when the output buffer is full
projectFull(initialDstLength, rowsProcessed, offset, lane) ==
    <<initialDstLength, rowsProcessed>>

\* the lane loop from lane on
RECURSIVE projectLanes(_, _, _, _, _)
projectLanes(f, d, dst, offset, lane) ==
    IF lane = f.n THEN [delims |-> d, dst |-> dst, offset |-> offset, full |-> FALSE, lane |-> lane]
    ELSE IF ~Bit(f.mask, lane) THEN projectLanes(f, d, dst, offset, lane + 1)
    ELSE LET contentSize == contentSizeFrom(f.symbols, 1, f.vstack, lane)
             headerSize  == getTLVSize(contentSize)
             structSize  == headerSize + contentSize
         IN IF Len(dst) - offset < structSize
            THEN [delims |-> d, dst |-> dst, offset |-> offset, full |-> TRUE, lane |-> lane]
            ELSE LET hdr  == encodeTLVUnsafe(StructType, contentSize)
                     body == serializeFrom(f.symbols, 1, f.vstack, lane)
                     at   == offset + Len(hdr)
                 IN projectLanes(f,
                        [d EXCEPT ![f.rowsProcessed + lane + 1] = <<f.dstDisp + at, contentSize>>],
                        store(dst, offset, hdr \o body), at + Len(body), lane + 1)

\* the loop head up to the call of eval
ProjectBatch ==
    /\ phase = "call" /\ drv.name = "project"
    /\ drv.rowsProcessed < Len(drv.delims)
    /\ LET n == Min(Len(drv.delims) - drv.rowsProcessed, bcLaneCount)
           b == evalEnter([bc EXCEPT
                    !.delims.offsets = [i \in Lanes |->
                        IF i < n THEN drv.delims[drv.rowsProcessed + i + 1][1] ELSE @[i]],
                    !.delims.sizes = [i \in Lanes |->
                        IF i < n THEN drv.delims[drv.rowsProcessed + i + 1][2] ELSE @[i]],
                    !.err = 0,
                    !.validLanes = Pow2(n) - 1], TRUE)
       IN /\ bc' = b
          /\ drv' = [drv EXCEPT !.n = n, !.initialDstLength = drv.offset]
          /\ hist' = [hist EXCEPT !.batches = Append(@, BatchEntry(drv.rowsProcessed, n, b))]
    /\ pc' = 0
    /\ phase' = "eval"
    /\ UNCHANGED avx

\* from the return of eval to the end of the loop body
ProjectPost ==
    /\ evalReturned /\ drv.name = "project"
    /\ hist' = [hist EXCEPT !.batches[Len(hist.batches)] = BatchExit(@, bc)]
    /\ IF bc.err # 0
       THEN /\ drv' = [drv EXCEPT !.ret = <<drv.initialDstLength, drv.rowsProcessed>>]
            /\ phase' = "done"
       ELSE LET f == [n |-> drv.n, mask |-> bc.outputLanes, symbols |-> drv.symbols,
                      vstack |-> bc.vstack, rowsProcessed |-> drv.rowsProcessed,
                      dstDisp |-> drv.dstDisp]
                c == projectLanes(f, drv.delims, drv.dst, drv.offset, 0)
            IN IF c.full
               THEN /\ drv' = [drv EXCEPT !.delims = c.delims, !.dst = c.dst,
                                          !.ret = projectFull(drv.initialDstLength,
                                                              drv.rowsProcessed, c.offset,
                                                              c.lane)]
                    /\ phase' = "done"
               ELSE /\ drv' = [drv EXCEPT !.delims = c.delims, !.dst = c.dst,
                                          !.offset = c.offset,
                                          !.rowsProcessed = drv.rowsProcessed + drv.n]
                    /\ phase' = "call"
    /\ UNCHANGED <<bc, pc, avx>>

\* the loop ends: return offset, rowsProcessed
ProjectReturn ==
    /\ phase = "call" /\ drv.name = "project"
    /\ drv.rowsProcessed >= Len(drv.delims)
    /\ drv' = [drv EXCEPT !.ret = <<drv.offset, drv.rowsProcessed>>]
    /\ phase' = "done"
    /\ UNCHANGED <<bc, pc, hist, avx>>

\* SELECT field 5 AS symbol 300, field 20 AS symbol 12, of every row
ProgProjectAll ==
    Concat(<<InsInit(0, 0), InsFindsym(1, 1, 0, 5, 0), InsFindsym(2, 2, 0, 20, 0),
             InsRetk(0)>>)

\* SELECT field 9 of the rows that have it
ProgProjectHaving ==
    Concat(<<InsInit(0, 0), InsFindsym(1, 1, 0, 9, 0), InsRetk(1)>>)

syminfo(value, size, slot) == [value |-> value, size |-> size, slot |-> slot]

\* the projections: a program and its items, the size of an item being the
\* length of its encoded label
Projections ==
    { [prog |-> ProgProjectAll, symbols |-> <<syminfo(300, 2, 1), syminfo(12, 1, 2)>>],
      [prog |-> ProgProjectHaving, symbols |-> <<syminfo(9, 1, 1)>>] }

\* capacities of the output buffer: short of one batch, short of or just
\* enough for two, ample (no struct of the catalogue exceeds MaxStruct bytes)
MaxStruct == 40
ProjectCapacities == {25, 104, MaxRows * MaxStruct}

\* the call evalprojectgo(bc, delims, dst, symbols) of a scan
ProjectStart(par, proj, capacity) ==
    /\ bc = NewBytecode(proj.prog, AuxInput(par))
    /\ pc = 0
    /\ phase = "call"
    /\ drv = [name |-> "project", delims |-> Input(par), dst |-> SeqOf(capacity, 0),
              symbols |-> proj.symbols, dstDisp |-> Len(Vmm), offset |-> 0,
              rowsProcessed |-> 0, initialDstLength |-> 0, n |-> 0, ret |-> <<>>]
    /\ hist = NewHist(par)
    /\ avx = FALSE

InitProject ==
    \E par \in DriverParams, proj \in Projections, capacity \in ProjectCapacities :
        ProjectStart(par, proj, capacity)

NextProject == ProjectBatch \/ EvalInstr \/ ProjectPost \/ ProjectReturn

SpecProject == InitProject /\ [][NextProject]_vars

(***************************************************************************)
(* What a projection must write, from the registers at the return of eval: *)
(* a label below 128 takes one byte and one below 16384 two; a struct of   *)
(* fewer than 14 content bytes has a one-byte header, one of fewer than    *)
(* 128 a two-byte header.                                                  *)
(***************************************************************************)
LabelBytes(sym) == IF sym < 128 THEN <<128 + sym>> ELSE <<sym \div 128, 128 + (sym % 128)>>

\* the batch of the input row at position r (from 1) and its lane
BatchOf(r) == hist.batches[((r - 1) \div bcLaneCount) + 1]
LaneOf(r) == (r - 1) % bcLaneCount

RowSurvives(r) == Bit(BatchOf(r).out, LaneOf(r))

\* the content of the row's struct: label and value of every item whose
\* value is not MISSING in the row's lane
RECURSIVE RowContentFrom(_, _)
RowContentFrom(r, i) ==
    IF i > Len(drv.symbols) THEN <<>>
    ELSE LET vals == BatchOf(r).regs.v[drv.symbols[i].slot]
             off  == vals.offsets[LaneOf(r)]
             size == vals.sizes[LaneOf(r)]
         IN (IF size = 0 THEN <<>>
             ELSE LabelBytes(drv.symbols[i].value) \o SubSeq(Vmm, off + 1, off + size))
            \o RowContentFrom(r, i + 1)

RowContent(r) == RowContentFrom(r, 1)

StructHeader(content) == IF Len(content) < 14 THEN 1 ELSE 2

\* the bytes of the row in the output: nothing unless it survives
RowStructSize(r) ==
    IF RowSurvives(r) THEN StructHeader(RowContent(r)) + Len(RowContent(r)) ELSE 0

\* where the struct of row r starts in the output
RECURSIVE RowStart(_)
RowStart(r) == IF r = 1 THEN 0 ELSE RowStart(r - 1) + RowStructSize(r - 1)

ProjectDone == drv.name = "project" /\ phase = "done"

\* C5: for each surviving lane evalprojectgo writes one struct whose header
\* encodes the content length sum(label size + value length) over the items
\* whose value is not MISSING in the lane; a MISSING item adds no byte and
\* no label, and the row takes header size + content length bytes of the
\* output.
C5_ProjectStruct ==
    ProjectDone =>
        /\ drv.ret[1] = RowStart(drv.ret[2] + 1)
        /\ \A r \in 1 .. drv.ret[2] :
              RowSurvives(r) =>
                  LET at      == RowStart(r)
                      content == RowContent(r)
                      header  == HeaderSizeOf(drv.dst, at)
                  IN /\ TypeOf(drv.dst[at + 1]) = StructType
                     /\ header = StructHeader(content)
                     /\ SizeOf(drv.dst, at) - header = Len(content)
                     /\ SubSeq(drv.dst, at + header + 1, at + header + Len(content)) = content
                     /\ drv.delims[r] = <<drv.dstDisp + at + header, Len(content)>>

C5_Witness ==
    /\ ProjectDone
    /\ drv.ret[2] > bcLaneCount
    /\ Len(drv.symbols) = 2
    /\ \E r, q, t \in 1 .. drv.ret[2] :
          /\ RowSurvives(r) /\ RowSurvives(q) /\ RowSurvives(t)
          /\ BatchOf(r).regs.v[1].sizes[LaneOf(r)] = 0
          /\ BatchOf(r).regs.v[2].sizes[LaneOf(r)] # 0
          /\ Len(RowContent(q)) >= 14
          /\ Len(RowContent(t)) \in 1 .. 13

\* the output buffer is too small for a surviving lane of the last batch
ProjectOverflows ==
    /\ hist.batches # <<>>
    /\ LET bt == hist.batches[Len(hist.batches)] IN
       /\ bt.err = 0
       /\ \E r \in (bt.start + 1) .. (bt.start + bt.n) :
             RowSurvives(r) /\ Len(drv.dst) - RowStart(r) < RowStructSize(r)

\* C6: when the remaining capacity of the output buffer is smaller than the
\* struct of a surviving lane of a batch, evalprojectgo returns the output
\* offset and the processed-row count as they were when the batch began.
C6_ProjectRollback ==
    (ProjectDone /\ ProjectOverflows) =>
        LET bt == hist.batches[Len(hist.batches)]
        IN drv.ret = <<RowStart(bt.start + 1), bt.start>>

\* the second batch overflows after it has written a struct
C6_Witness ==
    /\ ProjectDone /\ ProjectOverflows
    /\ Len(hist.batches) = 2
    /\ drv.ret[1] > 0
    /\ drv.delims[bcLaneCount + 1][1] >= drv.dstDisp

(***************************************************************************)
(* func evalsplatgo(bc *bytecode, indelims, outdelims []vmref,             *)
(*                  perm []int32) (int, int)                               *)
(***************************************************************************)
\* a perm entry that records the lane alone
permEntryLane(i, ipos) == i

\* perm[output] = int32(i + ipos)
permEntry(i, ipos) == i + ipos

\* the loop over the children of one lane's slice [start, end)
RECURSIVE splatSlice(_, _, _, _, _, _, _)
splatSlice(outdelims, perm, output, start, end, i, ipos) ==
    IF start >= end
    THEN [outdelims |-> outdelims, perm |-> perm, output |-> output, early |-> FALSE]
    ELSE IF output = Len(outdelims) \/ output = Len(perm)
         THEN [outdelims |-> outdelims, perm |-> perm, output |-> output, early |-> TRUE]
         ELSE LET sz == SizeOf(Vmm, start) IN
              splatSlice([outdelims EXCEPT ![output + 1] = <<start, sz>>],
                         [perm EXCEPT ![output + 1] = permEntry(i, ipos)],
                         output + 1, start + sz, end, i, ipos)

\* the lane loop from lane i on
RECURSIVE splatLanes(_, _, _, _, _, _, _, _)
splatLanes(outdelims, perm, output, i, lanes, retmask, sreg, ipos) ==
    IF i = lanes
    THEN [outdelims |-> outdelims, perm |-> perm, output |-> output, early |-> FALSE]
    ELSE IF ~Bit(retmask, i)
         THEN splatLanes(outdelims, perm, output, i + 1, lanes, retmask, sreg, ipos)
         ELSE LET c == splatSlice(outdelims, perm, output, sreg.offsets[i],
                                  sreg.offsets[i] + sreg.sizes[i], i, ipos)
              IN IF c.early THEN c
                 ELSE splatLanes(c.outdelims, c.perm, c.output, i + 1, lanes, retmask,
                                 sreg, ipos)

\* the loop head up to the call of eval
SplatBatch ==
    /\ phase = "call" /\ drv.name = "splat"
    /\ drv.ipos < Len(drv.indelims) /\ drv.opos < Len(drv.outdelims)
    /\ LET next == SubSeq(drv.indelims, drv.ipos + 1, Len(drv.indelims))
           mask == IF Len(next) < bcLaneCount THEN LowMask(Len(next))
                   ELSE LowMask(bcLaneCount)
           b == evalEnter([bc EXCEPT !.delims = setvmrefB(next),
                                     !.validLanes = mask,
                                     !.outputLanes = 0], TRUE)
       IN /\ bc' = b
          /\ hist' = [hist EXCEPT !.batches =
                         Append(@, BatchEntry(drv.ipos, Min(bcLaneCount, Len(next)), b))]
    /\ pc' = 0
    /\ phase' = "eval"
    /\ UNCHANGED <<drv, avx>>

\* from the return of eval to the end of the loop body
SplatPost ==
    /\ evalReturned /\ drv.name = "splat"
    /\ hist' = [hist EXCEPT !.batches[Len(hist.batches)] = BatchExit(@, bc)]
    /\ IF bc.err # 0
       THEN /\ drv' = [drv EXCEPT !.ret = <<0, 0>>]
            /\ phase' = "done"
       ELSE LET lanes == Min(bcLaneCount, Len(drv.indelims) - drv.ipos)
                c == splatLanes(drv.outdelims, drv.perm, drv.opos, 0, lanes,
                                bc.outputLanes, bc.sreg, drv.ipos)
            IN IF c.early
               THEN /\ drv' = [drv EXCEPT !.outdelims = c.outdelims, !.perm = c.perm,
                                          !.ret = <<drv.ipos, drv.opos>>]
                    /\ phase' = "done"
               ELSE /\ drv' = [drv EXCEPT !.outdelims = c.outdelims, !.perm = c.perm,
                                          !.opos = c.output, !.ipos = drv.ipos + lanes]
                    /\ phase' = "call"
    /\ UNCHANGED <<bc, pc, avx>>

\* the loop ends: return ipos, opos
SplatReturn ==
    /\ phase = "call" /\ drv.name = "splat"
    /\ ~(drv.ipos < Len(drv.indelims) /\ drv.opos < Len(drv.outdelims))
    /\ drv' = [drv EXCEPT !.ret = <<drv.ipos, drv.opos>>]
    /\ phase' = "done"
    /\ UNCHANGED <<bc, pc, hist, avx>>

\* the elements of the list in field 20
ProgSplat ==
    Concat(<<InsInit(0, 0), InsFindsym(1, 1, 0, 20, 0), InsUnpack(2, 2, 1, ListType, 1),
             InsRetsk(2, 2)>>)

\* lengths of outdelims and perm
SplatCapacities ==
    {<<0, 0>>, <<3, 5>>, <<5, 3>>, <<12, 12>>, <<13, 14>>, <<4 * MaxRows, 4 * MaxRows>>}

\* the call evalsplatgo(bc, indelims, outdelims, perm) of a scan
SplatStart(par, cap, hw) ==
    /\ bc = NewBytecode(ProgSplat, AuxInput(par))
    /\ pc = 0
    /\ phase = "call"
    /\ drv = [name |-> "splat", indelims |-> Input(par),
              outdelims |-> SeqOf(cap[1], <<0, 0>>), perm |-> SeqOf(cap[2], -1),
              ipos |-> 0, opos |-> 0, ret |-> <<>>]
    /\ hist = NewHist(par)
    /\ avx = hw

InitSplat ==
    \E par \in DriverParams, cap \in SplatCapacities, hw \in BOOLEAN :
        SplatStart(par, cap, hw)

NextSplat == SplatBatch \/ EvalInstr \/ SplatPost \/ SplatReturn

SpecSplat == InitSplat /\ [][NextSplat]_vars

(***************************************************************************)
(* What the catalogue says about the list in field 20 of a row: the sizes  *)
(* of its elements.  Rows 1, 3 and 6 have the field.                       *)
(***************************************************************************)
ListChildren(kind) ==
    CASE kind = 1 -> <<2, 2>>
      [] kind = 3 -> <<>>
      [] kind = 6 -> <<3, 2, 3, 17>>
      [] OTHER -> <<>>

RECURSIVE SumTo(_, _)
SumTo(sizes, n) == IF n = 0 THEN 0 ELSE SumTo(sizes, n - 1) + sizes[n]

\* the delimiters of the elements of the list of the input row at position r
RowChildren(r) ==
    LET kind   == kindAt(hist.par, r)
        fields == RowFields[kind]
        x      == FieldIdx(fields, 20)
        body   == Input(hist.par)[r][1] + FieldsLen(fields, x - 1) + 1
                  + ValueHeader(fields[x].v)
        sizes  == ListChildren(kind)
    IN [c \in 1 .. Len(sizes) |-> <<body + SumTo(sizes, c - 1), sizes[c]>>]

\* the expected outputs of the rows up to ipos: (delimiter, source row index)
SplatOutputs(ipos) ==
    Concat([r \in 1 .. ipos |->
               IF RowSurvives(r)
               THEN [c \in 1 .. Len(RowChildren(r)) |->
                        [delim |-> RowChildren(r)[c], src |-> r - 1]]
               ELSE <<>>])

SplatDone == drv.name = "splat" /\ phase = "done" /\ bc.err = 0

\* C7: on return (ipos, opos) without error, outdelims[0:opos] holds one
\* delimiter per element of the container of every surviving row among
\* indelims[0:ipos], in row order then element order, each spanning one
\* encoded element, and perm[o] is the index (batch start + lane) of the row
\* of output o; rows from ipos on have contributed nothing.
C7_SplatOutputs ==
    SplatDone =>
        LET exp == SplatOutputs(drv.ret[1])
        IN /\ drv.ret[2] = Len(exp)
           /\ \A o \in 1 .. Len(exp) :
                 /\ drv.outdelims[o] = exp[o].delim
                 /\ drv.perm[o] = exp[o].src

\* the second batch ends early after the first has produced outputs
C7_Witness ==
    /\ SplatDone
    /\ Len(hist.batches) = 2
    /\ drv.ret[1] = bcLaneCount
    /\ drv.ret[2] > 0
    /\ \E o \in 1 .. drv.ret[2] : drv.outdelims[o][2] = 17 /\ drv.perm[o] > 0
    /\ \E r \in 1 .. bcLaneCount : RowSurvives(r) /\ RowChildren(r) = <<>>

(***************************************************************************)
(* func evalaggregatego(bc *bytecode, delims []vmref,                      *)
(*                      aggregateDataBuffer []byte) int                    *)
(***************************************************************************)
\* the loop head up to the call of eval
AggregateBatch ==
    /\ phase = "call" /\ drv.name = "aggregate"
    /\ drv.pos < Len(drv.delims)
    /\ LET n == Min(Len(drv.delims) - drv.pos, bcLaneCount)
           b == evalEnter([bc EXCEPT
                              !.delims = setvmrefB(SubSeq(drv.delims, drv.pos + 1,
                                                          Len(drv.delims))),
                              !.validLanes = LowMask(n),
                              !.outputLanes = 0], TRUE)
       IN /\ bc' = b
          /\ drv' = [drv EXCEPT !.n = n]
          /\ hist' = [hist EXCEPT !.batches = Append(@, BatchEntry(drv.pos, n, b))]
    /\ pc' = 0
    /\ phase' = "eval"
    /\ UNCHANGED avx

\* from the return of eval to the end of the loop body
AggregatePost ==
    /\ evalReturned /\ drv.name = "aggregate"
    /\ hist' = [hist EXCEPT !.batches[Len(hist.batches)] = BatchExit(@, bc)]
    /\ IF bc.err # 0
       THEN /\ drv' = [drv EXCEPT !.ret = <<drv.retn>>]
            /\ phase' = "done"
       ELSE /\ drv' = [drv EXCEPT !.pos = drv.pos + drv.n, !.retn = drv.retn + drv.n]
            /\ phase' = "call"
    /\ UNCHANGED <<bc, pc, avx>>

\* the loop ends: return ret
AggregateReturn ==
    /\ phase = "call" /\ drv.name = "aggregate"
    /\ drv.pos >= Len(drv.delims)
    /\ drv' = [drv EXCEPT !.ret = <<drv.retn>>]
    /\ phase' = "done"
    /\ UNCHANGED <<bc, pc, hist, avx>>

\* the call evalaggregatego(bc, delims, aggregateDataBuffer) of a scan
AggregateStart(par, prog) ==
    /\ bc = NewBytecode(prog, AuxInput(par))
    /\ pc = 0
    /\ phase = "call"
    /\ drv = [name |-> "aggregate", delims |-> Input(par), pos |-> 0, retn |-> 0,
              n |-> 0, ret |-> <<>>]
    /\ hist = NewHist(par)
    /\ avx = FALSE

(***************************************************************************)
(* func evalfindgo(bc *bytecode, delims []vmref, stride int)               *)
(* bc.vstack is a window of the register stack that moves by stride after  *)
(* every batch; frames holds the windows left behind, stride being the     *)
(* size of one window.                                                     *)
(***************************************************************************)
\* the loop head up to the call of eval
FindBatch ==
    /\ phase = "call" /\ drv.name = "find"
    /\ drv.pos < Len(drv.delims)
    /\ LET rest  == Len(drv.delims) - drv.pos
           lanes == IF rest < bcLaneCount THEN rest ELSE bcLaneCount
           mask  == IF rest < bcLaneCount THEN LowMask(rest) ELSE LowMask(bcLaneCount)
           b == evalEnter([bc EXCEPT
                              !.scratch = IF drv.pos = 0 THEN bc.savedlit ELSE @,
                              !.err = 0,
                              !.validLanes = mask,
                              !.outputLanes = mask,
                              !.delims = setvmrefB(SubSeq(drv.delims, drv.pos + 1,
                                                          Len(drv.delims)))], FALSE)
       IN /\ bc' = b
          /\ drv' = [drv EXCEPT !.n = lanes]
          /\ hist' = [hist EXCEPT !.batches = Append(@, BatchEntry(drv.pos, lanes, b))]
    /\ pc' = 0
    /\ phase' = "eval"
    /\ UNCHANGED avx

\* from the return of eval to the end of the loop body
FindPost ==
    /\ evalReturned /\ drv.name = "find"
    /\ hist' = [hist EXCEPT !.batches[Len(hist.batches)] = BatchExit(@, bc)]
    /\ IF bc.err # 0
       THEN /\ drv' = [drv EXCEPT !.ret = <<>>]
            /\ phase' = "done"
            /\ UNCHANGED bc
       ELSE /\ drv' = [drv EXCEPT !.pos = drv.pos + drv.n,
                                  !.frames = Append(@, bc.vstack),
                                  !.base = @ + 1]
            /\ bc' = [bc EXCEPT !.vstack = ZeroStack]
            /\ phase' = "call"
    /\ UNCHANGED <<pc, avx>>

\* the loop ends: bc.vstack = stack.  drv.base is the number of strides by
\* which bc.vstack lies past the slice of the entry (bc.vstack[stride:])
FindReturn ==
    /\ phase = "call" /\ drv.name = "find"
    /\ drv.pos >= Len(drv.delims)
    /\ bc' = [bc EXCEPT !.scratch = IF drv.pos = 0 THEN bc.savedlit ELSE @,
                        !.vstack = IF drv.frames = <<>> THEN @ ELSE drv.frames[1]]
    /\ drv' = [drv EXCEPT !.ret = <<>>, !.base = 0]
    /\ phase' = "done"
    /\ UNCHANGED <<pc, hist, avx>>

\* the call evalfindgo(bc, delims, stride) of a scan; the scratch buffer of a
\* new bytecode object holds the saved literals and nothing else
FindStart(par, prog) ==
    /\ bc = NewBytecode(prog, AuxInput(par))
    /\ pc = 0
    /\ phase = "call"
    /\ drv = [name |-> "find", delims |-> Input(par), pos |-> 0, frames |-> <<>>,
              base |-> 0, n |-> 0, ret |-> <<>>]
    /\ hist = NewHist(par)
    /\ avx = FALSE

(***************************************************************************)
(* The six row drivers side by side.                                       *)
(***************************************************************************)
InitDrivers ==
    \/ \E par \in DriverParams, prog \in {ProgAll, ProgField9} : FilterStart(par, prog)
    \/ \E par \in DriverParams : DedupStart(par, {}, TRUE)
    \/ \E par \in DriverParams, capacity \in ProjectCapacities :
          ProjectStart(par, [prog |-> ProgProjectHaving, symbols |-> <<syminfo(9, 1, 1)>>],
                       capacity)
    \/ \E par \in DriverParams, cap \in SplatCapacities : SplatStart(par, cap, TRUE)
    \/ \E par \in DriverParams, prog \in {ProgAll, ProgField9} : AggregateStart(par, prog)
    \/ \E par \in DriverParams, prog \in {ProgAll, ProgNested} : FindStart(par, prog)

NextDrivers ==
    \/ EvalInstr
    \/ FilterBatch \/ FilterPost \/ FilterReturn
    \/ DedupBatch \/ DedupPost \/ DedupReturn
    \/ ProjectBatch \/ ProjectPost \/ ProjectReturn
    \/ SplatBatch \/ SplatPost \/ SplatReturn
    \/ AggregateBatch \/ AggregatePost \/ AggregateReturn
    \/ FindBatch \/ FindPost \/ FindReturn

SpecDrivers == InitDrivers /\ [][NextDrivers]_vars

\* the batches seen so far are the consecutive batches of the input: batch k
\* starts at row 16 (k - 1), holds the next min(16, remaining) rows in lane
\* order, and validLanes has exactly that many low bits
BatchesInOrder ==
    LET inp == Input(hist.par) IN
    \A k \in 1 .. Len(hist.batches) :
        LET bt == hist.batches[k] IN
        /\ bt.start = bcLaneCount * (k - 1)
        /\ bt.start < Len(inp)
        /\ bt.n = Min(bcLaneCount, Len(inp) - bt.start)
        /\ bt.valid = Pow2(bt.n) - 1
        /\ \A i \in 0 .. (bt.n - 1) :
              <<bt.lanes.offsets[i], bt.lanes.sizes[i]>> = inp[bt.start + i + 1]

\* every row of the input has been in a batch
AllRowsSeen == bcLaneCount * Len(hist.batches) >= hist.par.n

\* the number of list elements the rows of the input hold
RECURSIVE SplatDemand(_)
SplatDemand(r) ==
    IF r = 0 THEN 0
    ELSE SplatDemand(r - 1)
         + (IF kindAt(hist.par, r) = CorruptKind THEN 0
            ELSE Len(ListChildren(kindAt(hist.par, r))))

DriverDone == drv.name # "ops" /\ phase = "done" /\ bc.err = 0

\* C10 (as stated): every driver splits its input into consecutive batches
\* of at most 16 rows, and without error and with sufficient output capacity
\* every row is evaluated in exactly one batch, at the lane of its position
\* in the batch, validLanes having the low min(16, remaining) bits.
C10_EveryRowOnce ==
    /\ drv.name # "ops" => BatchesInOrder
    /\ (/\ DriverDone
        /\ drv.name = "project" => ~ProjectOverflows
        /\ drv.name = "splat" =>
              /\ SplatDemand(hist.par.n) <= Len(drv.outdelims)
              /\ SplatDemand(hist.par.n) <= Len(drv.perm))
       => AllRowsSeen

\* C10 (amended): the same, where for splat sufficient capacity means that
\* outdelims has a free entry whenever a batch begins, that is, outdelims is
\* longer than the number of list elements of the input (and perm at least
\* as long as that number): splat starts no batch once outdelims is full,
\* even if the remaining rows would produce nothing.
C10_EveryRowOnceWithRoom ==
    /\ drv.name # "ops" => BatchesInOrder
    /\ (/\ DriverDone
        /\ drv.name = "project" => ~ProjectOverflows
        /\ drv.name = "splat" =>
              /\ SplatDemand(hist.par.n) < Len(drv.outdelims)
              /\ SplatDemand(hist.par.n) <= Len(drv.perm))
       => AllRowsSeen

\* a splat over two batches, the second partial, that filled outdelims to
\* its last entry but one
C10_Witness ==
    /\ DriverDone /\ drv.name = "splat"
    /\ Len(hist.batches) = 2
    /\ hist.batches[2].valid = Pow2(hist.par.n - bcLaneCount) - 1
    /\ hist.par.n > bcLaneCount + 1
    /\ SplatDemand(hist.par.n) + 1 = Len(drv.outdelims)
    /\ drv.ret = <<hist.par.n, SplatDemand(hist.par.n)>>

(***************************************************************************)
(* The layout of the instruction stream, from the operand kinds of the     *)
(* opcode table: a register slot, an aux slot or a 16-bit immediate takes  *)
(* 2 bytes, a symbol id 4, a 64-bit immediate 8.                           *)
(***************************************************************************)
OperandBytes(text) ==
    CASE text = "ret" -> 0
      [] text = "ret.k" -> 2
      [] text = "ret.b.k" -> 4
      [] text = "ret.s.k" -> 4
      [] text = "ret.b.h.k" -> 6
      [] text = "init" -> 4
      [] text = "cmpv.i64@imm" -> 2 + 2 + 2 + 8 + 2
      [] text = "cmplt.i64@imm" -> 2 + 2 + 8 + 2
      [] text = "findsym" -> 2 + 2 + 2 + 4 + 2
      [] text = "unpack" -> 2 + 2 + 2 + 2 + 2
      [] text = "hashvalue" -> 2 + 2 + 2
      [] text = "auxval" -> 2 + 2 + 2
      [] text = "tuple" -> 2 + 2 + 2 + 2
      [] text = "box.f64" -> 2 + 2 + 2

\* a step of eval's loop: the driver is inside eval before and after it
EvalIteration == phase = "eval" /\ phase' = "eval" /\ <<bc, pc>>' # <<bc, pc>>

\* C11: eval runs the instructions in program order from pc 0, every handler
\* returning the pc of the next instruction, and stops as soon as pc reaches
\* the end of the compiled stream or the error field is non-zero: no
\* instruction runs after one that set the error field.
C11_DispatchOrder ==
    [][/\ (phase # "eval" /\ phase' = "eval") => pc' = 0
       /\ EvalIteration =>
             /\ bc.err = 0
             /\ pc < Len(bc.compiled)
             /\ bc'.err = 0 => pc' = pc + 2 + OperandBytes(bcop(bc.compiled, pc))
             /\ bc'.compiled = bc.compiled]_vars

\* eval has stopped on an error with instructions left
C11_Witness ==
    /\ phase = "eval" /\ bc.err = bcerrCorrupt
    /\ pc + 2 < Len(bc.compiled)
    /\ bcop(bc.compiled, pc) = "cmpv.i64@imm"

(***************************************************************************)
(* A second call of a driver on the bytecode object of an earlier call.    *)
(* The caller binds the aux columns of the new rows and rewinds auxpos;    *)
(* every other field of the object is as the earlier call left it.         *)
(***************************************************************************)
RecallParams == [n : {1, bcLaneCount + 1}, base : {0, 3}, step : {1}, bad : {0, 2}]

\* the arguments and locals of a driver at the start of a call on fresh
\* buffers of the sizes of the earlier call
CallRecord(d, par) ==
    CASE d.name = "filter" ->
            [d EXCEPT !.delims = Input(par), !.i = 0, !.j = 0, !.n = 0, !.apos = 0,
                      !.ret = <<>>]
      [] d.name = "dedup" ->
            [d EXCEPT !.delims = Input(par), !.hashes = SeqOf(par.n, 0), !.pos = 0,
                      !.dout = 0, !.n = 0, !.apos = 0, !.ret = <<>>]
      [] d.name = "project" ->
            [d EXCEPT !.delims = Input(par), !.dst = SeqOf(Len(d.dst), 0), !.offset = 0,
                      !.rowsProcessed = 0, !.initialDstLength = 0, !.n = 0, !.ret = <<>>]
      [] d.name = "splat" ->
            [d EXCEPT !.indelims = Input(par),
                      !.outdelims = SeqOf(Len(d.outdelims), <<0, 0>>),
                      !.perm = SeqOf(Len(d.perm), -1), !.ipos = 0, !.opos = 0,
                      !.ret = <<>>]
      [] d.name = "aggregate" ->
            [d EXCEPT !.delims = Input(par), !.pos = 0, !.retn = 0, !.n = 0, !.ret = <<>>]
      [] d.name = "find" ->
            [d EXCEPT !.delims = Input(par), !.pos = 0, !.frames = <<>>, !.n = 0,
                      !.ret = <<>>]

\* the rows of a call that follows an earlier one on the same object
SecondCall(par) == [n |-> par.n, base |-> par.base, step |-> par.step, bad |-> par.bad,
                    call |-> 2]

CallAgain ==
    /\ phase = "done" /\ drv.name # "ops"
    /\ "call" \notin DOMAIN hist.par
    /\ \E par \in RecallParams :
          /\ par.bad = 0
          /\ bc' = [bc EXCEPT !.auxvals = AuxInput(par), !.auxpos = 0]
          /\ drv' = CallRecord(drv, par)
          /\ hist' = NewHist(SecondCall(par))
    /\ phase' = "call"
    /\ UNCHANGED <<pc, avx>>

InitRecall ==
    \/ \E par \in RecallParams : FilterStart(par, ProgField9)
    \/ \E par \in RecallParams : DedupStart(par, {}, TRUE)
    \/ \E par \in RecallParams :
          ProjectStart(par, [prog |-> ProgProjectHaving, symbols |-> <<syminfo(9, 1, 1)>>],
                       MaxRows * MaxStruct)
    \/ \E par \in RecallParams : SplatStart(par, <<4 * MaxRows, 4 * MaxRows>>, TRUE)
    \/ \E par \in RecallParams : AggregateStart(par, ProgField9)
    \/ \E par \in RecallParams : FindStart(par, ProgNested)

NextRecall == NextDrivers \/ CallAgain

SpecRecall == InitRecall /\ [][NextRecall]_vars

\* eval has just been entered for a batch
BatchEntered == phase = "eval" /\ pc = 0

\* C12 (as stated): for every row driver each batch evaluation starts with
\* the error field cleared, so an error code left in the bytecode object by
\* an earlier batch or call does not keep the program of the new batch from
\* executing.
C12_ErrClearedAtEntry == BatchEntered => bc.err = 0

\* what the source does: project and find clear the error field before eval
ErrClearedByProjectAndFind ==
    (BatchEntered /\ drv.name \in {"project", "find"}) => bc.err = 0

(***************************************************************************)
(* The terminal return opcodes and auxpos.                                 *)
(***************************************************************************)
RetOps == {"ret", "ret.k", "ret.b.k", "ret.s.k", "ret.b.h.k"}

\* a step of eval's loop that executes a return opcode
RetStep == EvalIteration /\ bcop(bc.compiled, pc) \in RetOps

\* C13 (as stated): the terminal return opcode advances auxpos by the number
\* of lanes set in the output mask it publishes.
C13_AuxposByOutputMask ==
    [][RetStep => bc'.auxpos = bc.auxpos + OnesCount16(bc'.outputLanes)]_vars

\* C13 (corrected): every terminal return opcode advances auxpos by the
\* number of lanes set in validLanes, the rows of the batch; ret publishes
\* validLanes itself, while ret.k, ret.b.k, ret.s.k and ret.b.h.k publish
\* their mask operand, whose lane count does not enter auxpos.
C13_AuxposByValidLanes ==
    [][RetStep =>
          /\ bc'.auxpos = bc.auxpos + OnesCount16(bc.validLanes)
          /\ bc'.validLanes = bc.validLanes
          /\ bcop(bc.compiled, pc) = "ret" => bc'.outputLanes = bc.validLanes
          /\ bcop(bc.compiled, pc) # "ret" =>
                bc'.outputLanes = bc.vstack.k[bcword(bc.compiled,
                                     pc + OperandBytes(bcop(bc.compiled, pc)))]]_vars

\* a second batch has returned through ret.b.h.k with fewer output lanes
\* than rows: auxpos is the number of rows evaluated
C13_Witness ==
    /\ evalReturned /\ bc.err = 0 /\ drv.name = "dedup"
    /\ Len(hist.batches) = 2
    /\ OnesCount16(bc.outputLanes) < OnesCount16(bc.validLanes)
    /\ bc.auxpos = hist.par.n

(***************************************************************************)
(* Opcodes without a portable handler on a CPU without AVX-512.            *)
(***************************************************************************)
\* the opcodes of the programs for which init() registers a portable handler
PortableOps ==
    {"init", "ret", "ret.k", "ret.b.k", "ret.s.k", "ret.b.h.k", "auxval", "findsym",
     "cmpv.i64@imm", "cmplt.i64@imm", "tuple"}

\* C14: when eval reaches an opcode without portable handler and the CPU has
\* no AVX-512, it sets the error field to not-supported, changes no
\* register, output mask or auxpos, and executes no later instruction.
C14_NotSupported ==
    [][EvalIteration =>
          /\ bc.err # bcerrNotSupported
          /\ (~avx /\ bcop(bc.compiled, pc) \notin PortableOps) =>
                bc' = [bc EXCEPT !.err = bcerrNotSupported]]_vars

\* eval has stopped at hashvalue with ret.b.h.k still ahead: no hash was
\* computed, no mask published, auxpos is where the batch began
C14_Witness ==
    /\ phase = "eval" /\ ~avx /\ bc.err = bcerrNotSupported
    /\ pc < Len(bc.compiled)
    /\ bcop(bc.compiled, pc - 2) = "hashvalue"
    /\ bc.vstack.h[0] = ZeroStack.h[0]
    /\ bc.outputLanes = 0
    /\ bc.auxpos = drv.apos

(***************************************************************************)
(* Programs that reserve scratch: box.f64 (declared scratch 9 * 16) boxes   *)
(* the zero scalar register 1 into value register 1 right after init, once *)
(* or several times; the rest of the program is that of the driver.        *)
(***************************************************************************)
MaxBoxes == 3

ScratchNeed == 9 * bcLaneCount

RECURSIVE Boxes(_)
Boxes(k) == IF k = 0 THEN <<>> ELSE InsBoxf64(1, 1, 0) \o Boxes(k - 1)

BoxProg(prog, k) ==
    SubSeq(prog, 1, Len(InsInit(0, 0))) \o Boxes(k)
        \o SubSeq(prog, Len(InsInit(0, 0)) + 1, Len(prog))

\* cap(bc.scratch): no room for one reservation, or room for two
ScratchCaps == {LitLen + 100, ScratchCap}

ScratchStart(name, par, prog, cap, hw) ==
    /\ bc = [NewBytecode(prog, AuxInput(par)) EXCEPT !.scratchcap = cap]
    /\ pc = 0
    /\ phase = "call"
    /\ drv = CallRecord(
               CASE name = "filter" ->
                       [name |-> "filter", delims |-> <<>>, i |-> 0, j |-> 0, n |-> 0,
                        apos |-> 0, ret |-> <<>>]
                 [] name = "dedup" ->
                       [name |-> "dedup", delims |-> <<>>, hashes |-> <<>>, tree |-> {},
                        slot |-> 0, pos |-> 0, dout |-> 0, n |-> 0, apos |-> 0,
                        ret |-> <<>>]
                 [] name = "project" ->
                       [name |-> "project", delims |-> <<>>,
                        dst |-> SeqOf(MaxRows * MaxStruct, 0),
                        symbols |-> <<syminfo(9, 1, 1)>>, dstDisp |-> Len(Vmm),
                        offset |-> 0, rowsProcessed |-> 0, initialDstLength |-> 0,
                        n |-> 0, ret |-> <<>>]
                 [] name = "splat" ->
                       [name |-> "splat", indelims |-> <<>>,
                        outdelims |-> SeqOf(4 * MaxRows, <<0, 0>>),
                        perm |-> SeqOf(4 * MaxRows, -1), ipos |-> 0, opos |-> 0,
                        ret |-> <<>>]
                 [] name = "aggregate" ->
                       [name |-> "aggregate", delims |-> <<>>, pos |-> 0, retn |-> 0,
                        n |-> 0, ret |-> <<>>]
                 [] name = "find" ->
                       [name |-> "find", delims |-> <<>>, pos |-> 0, frames |-> <<>>,
                        n |-> 0, ret |-> <<>>],
               par)
    /\ hist = NewHist(par)
    /\ avx = hw

ScratchPrograms ==
    [filter |-> ProgField9, dedup |-> ProgDedup, project |-> ProgProjectHaving,
     splat |-> ProgSplat, aggregate |-> ProgField9, find |-> ProgNested]

InitScratch ==
    \E name \in DOMAIN ScratchPrograms, par \in RecallParams, k \in 1 .. MaxBoxes,
       cap \in ScratchCaps, hw \in BOOLEAN :
        /\ par.bad = 0
        /\ ScratchStart(name, par, BoxProg(ScratchPrograms[name], k), cap, hw)

SpecScratch == InitScratch /\ [][NextRecall]_vars

\* a step of eval's loop at an opcode with a declared scratch requirement
ScratchStep == EvalIteration /\ bcop(bc.compiled, pc) = "box.f64"

\* the remaining capacity does not hold the requirement
ScratchShort == bc.scratchcap - bc.scratch < ScratchNeed

C15_WitnessMoreScratch ==
    /\ phase = "eval" /\ avx
    /\ bc.err = bcerrMoreScratch
    /\ bc.scratch = LitLen + 2 * ScratchNeed
    /\ pc < Len(bc.compiled)

(***************************************************************************)
(* The scratch arena at the entry of a batch.                              *)
(***************************************************************************)
\* the number of box.f64 instructions of a program, from byte offset at
RECURSIVE BoxCount(_, _)
BoxCount(prog, at) ==
    IF at >= Len(prog) THEN 0
    ELSE (IF bcop(prog, at) = "box.f64" THEN 1 ELSE 0)
         + BoxCount(prog, at + 2 + OperandBytes(bcop(prog, at)))

\* C16 (as stated): at the entry of every batch evaluation scratch is reset
\* to the length of the saved literal prefix, for every row driver including
\* find on its second and later batches.
C16_ScratchResetEveryBatch == BatchEntered => bc.scratch = bc.savedlit

\* C16 (corrected): filter, dedup, aggregate, project and splat enter every
\* batch with len(scratch) = len(savedlit); find resets scratch once, when it
\* is called, and enters its second and later batches with the reservations
\* of the earlier batches of the call still in place.
C16_ScratchResetPerDriver ==
    BatchEntered =>
        bc.scratch = bc.savedlit
                     + (IF drv.name = "find"
                        THEN (Len(hist.batches) - 1) * BoxCount(bc.compiled, 0) * ScratchNeed
                        ELSE 0)

\* find has entered its second batch with the reservation of the first
C16_Witness ==
    /\ BatchEntered /\ drv.name = "find"
    /\ Len(hist.batches) = 2
    /\ bc.scratch = bc.savedlit + ScratchNeed

\* filter has entered its second batch: the reservation of the first is gone
C16_WitnessReset ==
    /\ BatchEntered /\ drv.name = "filter" /\ avx
    /\ Len(hist.batches) = 2
    /\ hist.batches[1].out # 0
    /\ bc.scratch = bc.savedlit

(***************************************************************************)
(* findsym on a lane whose struct does not hold the target.                *)
(***************************************************************************)
\* the number of fields whose label is smaller than the target
SmallerFields(fields, target) ==
    Cardinality({x \in 1 .. Len(fields) : fields[x].l < target})

\* the lane was searched and its struct has no field of the target label
FindsymMiss(lane) ==
    /\ OpsActive(lane) /\ OpsKind(lane) # CorruptKind
    /\ ~\E j \in 0 .. lane : OpsScanFails(j, drv.arg)
    /\ FieldIdx(RowFields[OpsKind(lane)], drv.arg) = 0

\* the offset just past the last field whose label is smaller than the target
PastSmaller(lane) ==
    LET fields == RowFields[OpsKind(lane)] IN
    OpsRow(hist.par, lane)[1] + FieldsLen(fields, SmallerFields(fields, drv.arg))

cmpv_predicate_matching_type ==
    <<0, 1, 2, 2, 2, 0, 3, 4, 4, 127, 127, 127, 127, 127, 127, 127>>
cmpv_predicate_sort_nulls_first ==
    <<128, 129, 130, 130, 130, 128, 131, 132, 132, 255, 255, 255, 255, 255, 255, 255>>
cmpv_predicate_sort_nulls_last ==
    <<143, 129, 130, 130, 130, 128, 131, 132, 132, 255, 255, 255, 255, 255, 255, 255>>

\* VPTESTNMD.BCST CONSTD_0x40() / CONSTD_0x80(): a bit of a key
KeyBit(key, bit) == (key \div bit) % 2 = 1

\* the content bytes as a quadword: VPSHUFB bswap64, VPSRLVQ by 8 (8 - len)
ContentWord(body) ==
    IF Len(body) > 8 THEN [i \in 1 .. 8 |-> 0]
    ELSE [i \in 1 .. 8 |-> IF i <= 8 - Len(body) THEN 0 ELSE body[i - (8 - Len(body))]]

\* VPSUBQ from zero: the two's complement of a quadword
Neg64(w) ==
    IF \A i \in 1 .. 8 : w[i] = 0 THEN w
    ELSE LET j == CHOOSE x \in 1 .. 8 : w[x] # 0 /\ \A y \in (x + 1) .. 8 : w[y] = 0
         IN [i \in 1 .. 8 |-> IF i < j THEN 255 - w[i]
                              ELSE IF i = j THEN 256 - w[i] ELSE 0]

\* unsigned order of two byte strings of one length, from position i
RECURSIVE BytesLess(_, _, _)
BytesLess(x, y, i) ==
    IF i > Len(x) THEN FALSE
    ELSE IF x[i] # y[i] THEN x[i] < y[i]
    ELSE BytesLess(x, y, i + 1)

\* VPCMPQ $VPCMP_IMM_LT: signed order of two quadwords
SignedLess(x, y) ==
    BytesLess([x EXCEPT ![1] = (@ + 128) % 256], [y EXCEPT ![1] = (@ + 128) % 256], 1)

RECURSIVE Log2(_)
Log2(n) == IF n <= 1 THEN 0 ELSE 1 + Log2(n \div 2)

\* VCVTQQ2PD: the float64 of a signed quadword of magnitude below 2^20
Cvtqq2pd(w) ==
    LET neg == w[1] >= 128
        m   == IF neg THEN Neg64(w) ELSE w
        n   == 65536 * m[6] + 256 * m[7] + m[8]
        e   == Log2(n)
        ex  == 1023 + e
        m20 == (n - Pow2(e)) * Pow2(20 - e)
    IN IF n = 0 THEN [i \in 1 .. 8 |-> 0]
       ELSE <<(IF neg THEN 128 ELSE 0) + ex \div 16,
              (ex % 16) * 16 + m20 \div 65536,
              (m20 \div 256) % 256, m20 % 256, 0, 0, 0, 0>>

\* dispatch_compare_number: the result of a lane whose sides are numbers
CompareNumber(l, r, prev) ==
    LET tl   == l.tlv \div 16
        tr   == r.tlv \div 16
        l0   == IF tl = 3 THEN Neg64(ContentWord(l.body)) ELSE ContentWord(l.body)
        r0   == IF tr = 3 THEN Neg64(ContentWord(r.body)) ELSE ContentWord(r.body)
        both == tl <= 3 /\ tr <= 3
        lw   == IF tl <= 3 /\ ~both THEN Cvtqq2pd(l0) ELSE l0
        rw   == IF tr <= 3 /\ ~both THEN Cvtqq2pd(r0) ELSE r0
        z    == IF SignedLess(lw, rw) THEN -1
                ELSE IF SignedLess(rw, lw) THEN 1 ELSE prev
    IN IF ~both /\ lw[1] >= 128 /\ rw[1] >= 128 THEN 0 - z ELSE z

\* the symbol table: the encoded strings of the symbol ids 0, 1, 2
CmpSymtab == << <<128>>, <<129, 97>>, <<130, 97, 98>> >>

\* the content a symbol is compared by: the string of its id when the id is
\* in the symbol table, its own bytes otherwise
Unsymbolize(v) ==
    LET n  == Len(v.body)
        \* VPSHUFB bswap32, VPSRLVD by 8 (4 - len): the id of the first 4 bytes
        id == CASE n = 1 -> v.body[1]
                [] n = 2 -> 256 * v.body[1] + v.body[2]
                [] n = 3 -> 65536 * v.body[1] + 256 * v.body[2] + v.body[3]
                [] n = 4 -> IF v.body[1] # 0 THEN Len(CmpSymtab)
                            ELSE 65536 * v.body[2] + 256 * v.body[3] + v.body[4]
                [] OTHER -> 0
    IN IF v.tlv \div 16 = 7 /\ id < Len(CmpSymtab)
       THEN SubSeq(CmpSymtab[id + 1], 2, Len(CmpSymtab[id + 1]))
       ELSE v.body

\* compare_bytes: the result of a lane compared by content, from byte i
RECURSIVE CompareBytes(_, _, _)
CompareBytes(x, y, i) ==
    IF i > Len(x) \/ i > Len(y) THEN Len(x) - Len(y)
    ELSE IF x[i] < y[i] THEN -1
    ELSE IF x[i] > y[i] THEN 1
    ELSE CompareBytes(x, y, i + 1)

\* one lane of fncmpv: k is the lane's bit of the output predicate K1, z the
\* lane's dword of Z16 after the final clamp
cmpvLane(pred, active, l, r) ==
    LET tl   == l.tlv \div 16
        tr   == r.tlv \div 16
        kl   == pred[tl + 1]
        kr   == pred[tr + 1]
        k1   == active /\ ~KeyBit(kl, 64) /\ ~KeyBit(kr, 64)
        k2   == k1 /\ kl = kr
        drop == k1 /\ ~k2 /\ ~KeyBit(kl, 128) /\ ~KeyBit(kr, 128)
        k5   == k2 /\ tl <= 1
        knum == k2 /\ ~k5 /\ tl <= 4
        kbyt == k2 /\ ~k5 /\ ~knum
        z0   == IF k5 THEN l.tlv - r.tlv ELSE kl - kr
        z1   == IF knum THEN CompareNumber(l, r, z0)
                ELSE IF kbyt THEN CompareBytes(Unsymbolize(l), Unsymbolize(r), 1)
                ELSE z0
        out  == k1 /\ ~drop
    IN [k |-> out,
        z |-> IF ~out THEN 0 ELSE IF z1 < -1 THEN -1 ELSE IF z1 > 1 THEN 1 ELSE z1]

\* fncmpv over the 16 lanes: K1 and Z16 on return
fncmpv(pred, k1, left, right) ==
    LET lane == [i \in Lanes |-> cmpvLane(pred, Bit(k1, i), left[i], right[i])]
    IN [k |-> MaskOf({i \in Lanes : lane[i].k}), z |-> [i \in Lanes |-> lane[i].z]]

(***************************************************************************)
(* fncmpv on pairs of values, in both orders.  The left vector holds one   *)
(* value in every lane, the right vector 16 consecutive values.            *)
(***************************************************************************)
CmpValue(tlv, body) == [tlv |-> tlv, body |-> body]

CmpValues ==
    << CmpValue(15, <<>>),                             \* null
       CmpValue(16, <<>>), CmpValue(17, <<>>),         \* false, true
       CmpValue(32, <<>>), CmpValue(33, <<3>>), CmpValue(34, <<1, 0>>),  \* 0, 3, 256
       CmpValue(49, <<2>>), CmpValue(49, <<3>>),       \* -2, -3
       CmpValue(72, <<64, 8, 0, 0, 0, 0, 0, 0>>),      \* 3.0
       CmpValue(72, <<64, 12, 0, 0, 0, 0, 0, 0>>),     \* 3.5
       CmpValue(72, <<192, 4, 0, 0, 0, 0, 0, 0>>),     \* -2.5
       CmpValue(72, <<192, 8, 0, 0, 0, 0, 0, 0>>),     \* -3.0
       CmpValue(72, <<192, 12, 0, 0, 0, 0, 0, 0>>),    \* -3.5
       CmpValue(99, <<128, 15, 231>>),                 \* timestamps
       CmpValue(100, <<128, 15, 231, 1>>),
       CmpValue(113, <<1>>), CmpValue(113, <<2>>),     \* symbols "a", "ab"
       CmpValue(113, <<9>>),                           \* a symbol not in the table
       CmpValue(128, <<>>), CmpValue(129, <<97>>),     \* "", "a"
       CmpValue(130, <<97, 98>>), CmpValue(129, <<98>>),   \* "ab", "b"
       CmpValue(137, <<97, 98, 99, 100, 101, 102, 103, 104, 105>>),   \* "abcdefghi"
       CmpValue(137, <<97, 98, 99, 100, 101, 102, 103, 104, 106>>),   \* "abcdefghj"
       CmpValue(161, <<1>>),                           \* blob
       CmpValue(176, <<>>), CmpValue(208, <<>>),       \* [], {}
       CmpValue(80, <<>>), CmpValue(81, <<1>>) >>      \* decimals

CmpPredicates ==
    [matching_type |-> cmpv_predicate_matching_type,
     sort_nulls_first |-> cmpv_predicate_sort_nulls_first,
     sort_nulls_last |-> cmpv_predicate_sort_nulls_last]

CmpParams ==
    [a : 0 .. (Len(CmpValues) - 1), b : {0, Len(CmpValues) - bcLaneCount},
     pred : DOMAIN CmpPredicates, mask : {65535, 23130}]

CmpLeft(par) == [i \in Lanes |-> CmpValues[par.a + 1]]
CmpRight(par) == [i \in Lanes |-> CmpValues[((par.b + i) % Len(CmpValues)) + 1]]

NoCmp == [k |-> 0, z |-> ZeroLanes]

InitCmpv ==
    \E par \in CmpParams :
        /\ bc = NewBytecode(<<>>, <<>>)
        /\ pc = 0
        /\ phase = "call"
        /\ drv = [name |-> "cmpv", fwd |-> NoCmp, rev |-> NoCmp]
        /\ hist = NewHist(par)
        /\ avx = TRUE

\* fncmpv with the left vector in L and the right vector in R
CmpvForward ==
    /\ phase = "call" /\ drv.name = "cmpv"
    /\ drv' = [drv EXCEPT !.fwd = fncmpv(CmpPredicates[hist.par.pred], hist.par.mask,
                                         CmpLeft(hist.par), CmpRight(hist.par))]
    /\ phase' = "swap"
    /\ UNCHANGED <<bc, pc, hist, avx>>

\* fncmpv with the two vectors exchanged
CmpvSwapped ==
    /\ phase = "swap" /\ drv.name = "cmpv"
    /\ drv' = [drv EXCEPT !.rev = fncmpv(CmpPredicates[hist.par.pred], hist.par.mask,
                                         CmpRight(hist.par), CmpLeft(hist.par))]
    /\ phase' = "done"
    /\ UNCHANGED <<bc, pc, hist, avx>>

NextCmpv == CmpvForward \/ CmpvSwapped

SpecCmpv == InitCmpv /\ [][NextCmpv]_vars

CmpvDone == drv.name = "cmpv" /\ phase = "done"

\* the internal type key of the value in a lane
CmpKey(v) == CmpPredicates[hist.par.pred][(v.tlv \div 16) + 1]

\* the claimed relation between the two orders in lane i
CmpvLaneAntisymmetric(i) ==
    LET l  == CmpLeft(hist.par)[i]
        r  == CmpRight(hist.par)[i]
        on == Bit(drv.fwd.k, i)
    IN /\ on <=> Bit(drv.rev.k, i)
       /\ drv.fwd.z[i] \in {-1, 0, 1} /\ drv.rev.z[i] \in {-1, 0, 1}
       /\ on => drv.fwd.z[i] = 0 - drv.rev.z[i]
       /\ on => Bit(hist.par.mask, i)
       /\ (Bit(hist.par.mask, i) /\ CmpKey(l) < 64 /\ CmpKey(r) < 64 /\ CmpKey(l) # CmpKey(r))
             => ~on
       /\ (Bit(hist.par.mask, i) /\ CmpKey(l) >= 128 /\ CmpKey(r) >= 128
              /\ ~KeyBit(CmpKey(l), 64) /\ ~KeyBit(CmpKey(r), 64) /\ CmpKey(l) # CmpKey(r))
             => on /\ drv.fwd.z[i] = Sign(CmpKey(l) - CmpKey(r))

\* C18: cmpv is antisymmetric under each of the three predicates: a lane is
\* comparable for (a, b) iff it is for (b, a), on comparable lanes
\* sign(cmpv(a, b)) = -sign(cmpv(b, a)) with results in {-1, 0, 1}; lanes
\* whose keys differ leave the mask in matching-type mode and are ordered by
\* the key difference in the sorting modes.
C18_CmpvAntisymmetric == CmpvDone => \A i \in Lanes : CmpvLaneAntisymmetric(i)

\* the same for the lanes that hold no decimal (ION type 5)
CmpvAntisymmetricWithoutDecimal ==
    CmpvDone =>
        \A i \in Lanes :
            (CmpLeft(hist.par)[i].tlv \div 16 # 5 /\ CmpRight(hist.par)[i].tlv \div 16 # 5)
                => CmpvLaneAntisymmetric(i)

(***************************************************************************)
(* package ion: Datum, Struct, List.  An encoded value is held as the tree *)
(* its bytes spell: the type of the TLV byte, the scalar content (a symbol *)
(* datum holds its symbol id), and for containers the sequence of          *)
(* (label symbol, value) pairs (label 0 in a list).  Strings are the code  *)
(* point of their only letter, 0 is the empty string; a float is held in   *)
(* halves (7 is 3.5) and the float that is no number as 2147483647.        *)
(***************************************************************************)
Ion(t, v, kids) == [t |-> t, v |-> v, kids |-> kids]
Scalar(t, v) == Ion(t, v, <<>>)
Kid(sym, d) == [sym |-> sym, d |-> d]
ListOf(t, items) == Ion(t, 0, [i \in 1 .. Len(items) |-> Kid(0, items[i])])

\* Symtab (ids >= 1, dense): Lookup, Get, Intern, contains
Lookup(st, sym) == sym \in 1 .. Len(st)
Get(st, sym) == IF Lookup(st, sym) THEN st[sym] ELSE 0
Intern(st, str) ==
    IF \E i \in 1 .. Len(st) : st[i] = str
    THEN [st |-> st, sym |-> CHOOSE i \in 1 .. Len(st) : st[i] = str /\ \A j \in 1 .. (i - 1) : st[j] # str]
    ELSE [st |-> Append(st, str), sym |-> Len(st) + 1]
stcontains(st, inner) == Len(inner) <= Len(st) /\ SubSeq(st, 1, Len(inner)) = inner
stoverlap(st1, st2) == stcontains(st1, st2) \/ stcontains(st2, st1)

Empty == [st |-> <<>>, buf |-> Scalar("invalid", 0)]
rawDatum(st, b) == [st |-> st, buf |-> b]

\* ReadDatum: datumTable[TypeOf(buf)](st, buf)
ReadDatum(st, buf) ==
    CASE buf.t = "symbol" ->
            IF Lookup(st, buf.v) THEN [ok |-> TRUE, d |-> rawDatum(st, buf)]
            ELSE [ok |-> FALSE, d |-> Empty]
      [] buf.t \in {"list", "sexp"} -> [ok |-> TRUE, d |-> rawDatum(st, buf)]
      [] buf.t = "struct" ->
            IF \A i \in 1 .. Len(buf.kids) : Lookup(st, buf.kids[i].sym)
            THEN [ok |-> TRUE, d |-> rawDatum(st, buf)]
            ELSE [ok |-> FALSE, d |-> Empty]
      [] buf.t = "annotation" ->
            IF Lookup(st, buf.kids[1].sym) THEN [ok |-> TRUE, d |-> rawDatum(st, buf)]
            ELSE [ok |-> FALSE, d |-> Empty]
      [] buf.t \in {"decimal", "reserved", "invalid"} -> [ok |-> FALSE, d |-> Empty]
      [] OTHER -> [ok |-> TRUE, d |-> rawDatum(<<>>, buf)]

\* resymbolizer.get: the cached translation of a source symbol
get(r, sym) ==
    IF sym < Len(r.idmap) /\ r.idmap[sym + 1] # 0
    THEN [r |-> r, sym |-> r.idmap[sym + 1]]
    ELSE LET grown == IF sym >= Len(r.idmap)
                      THEN r.idmap \o [i \in 1 .. (sym + 1 - Len(r.idmap)) |-> 0]
                      ELSE r.idmap
             new   == Intern(r.dsttab, Get(r.srctab, sym))
         IN [r |-> [r EXCEPT !.idmap = [grown EXCEPT ![sym + 1] = new.sym], !.dsttab = new.st],
             sym |-> new.sym]

RECURSIVE resym(_, _), resymBody(_, _, _, _)
\* the loop over the body of a struct (labelled) or a list
resymBody(r, kids, labelled, acc) ==
    IF kids = <<>> THEN [r |-> r, out |-> acc]
    ELSE LET k == Head(kids)
             g == IF labelled THEN get(r, k.sym) ELSE [r |-> r, sym |-> 0]
             c == resym(g.r, k.d)
         IN resymBody(c.r, Tail(kids), labelled, Append(acc, Kid(g.sym, c.out)))

resym(r, buf) ==
    CASE buf.t = "symbol" ->
            LET g == get(r, buf.v) IN [r |-> g.r, out |-> [buf EXCEPT !.v = g.sym]]
      [] buf.t \in {"struct", "annotation"} ->
            LET b == resymBody(r, buf.kids, TRUE, <<>>)
            IN [r |-> b.r, out |-> [buf EXCEPT !.kids = b.out]]
      [] buf.t = "list" ->
            LET b == resymBody(r, buf.kids, FALSE, <<>>)
            IN [r |-> b.r, out |-> [buf EXCEPT !.kids = b.out]]
      [] OTHER -> [r |-> r, out |-> buf]

\* Datum.Encode: the bytes appended to dst and the destination table after it
Encode(d, st) ==
    IF Len(d.st) = 0 \/ stcontains(st, d.st) THEN [st |-> st, out |-> d.buf]
    ELSE LET x == resym([idmap |-> <<>>, srctab |-> d.st, dsttab |-> st], d.buf)
         IN [st |-> x.r.dsttab, out |-> x.out]

IsNaN(v) == v = 2147483647

\* Struct.Fields / List.Items: Each stops at the first field it cannot read
RECURSIVE Fields(_, _)
Fields(st, kids) ==
    IF kids = <<>> THEN <<>>
    ELSE LET k == Head(kids)
             v == ReadDatum(st, k.d)
         IN IF ~Lookup(st, k.sym) \/ ~v.ok THEN <<>>
            ELSE <<[Label |-> st[k.sym], Datum |-> v.d, Sym |-> k.sym]>> \o Fields(st, Tail(kids))

RECURSIVE Items(_, _)
Items(st, kids) ==
    IF kids = <<>> THEN <<>>
    ELSE LET v == ReadDatum(st, Head(kids).d)
         IN IF ~v.ok THEN <<>> ELSE <<v.d>> \o Items(st, Tail(kids))

\* slices.SortFunc(f, x.Label < y.Label) on a short slice: insertion sort
RECURSIVE SortByLabel(_)
SortByLabel(f) ==
    IF Len(f) <= 1 THEN f
    ELSE LET init == SortByLabel(SubSeq(f, 1, Len(f) - 1))
             x    == f[Len(f)]
             at   == Cardinality({i \in 1 .. Len(init) : init[i].Label <= x.Label})
         IN SubSeq(init, 1, at) \o <<x>> \o SubSeq(init, at + 1, Len(init))

RECURSIVE DatumEqual(_, _), StructEqual(_, _), ListEqual(_, _)
\* Struct.Equal
StructEqual(s, s2) ==
    IF s.buf.kids = <<>> THEN s2.buf.kids = <<>>
    ELSE IF s.buf = s2.buf /\ stoverlap(s.st, s2.st) THEN TRUE
    ELSE LET f1 == SortByLabel(Fields(s.st, s.buf.kids))
             f2 == SortByLabel(Fields(s2.st, s2.buf.kids))
         IN /\ Len(f1) = Len(f2)
            /\ \A i \in 1 .. Len(f1) :
                  f1[i].Label = f2[i].Label /\ DatumEqual(f1[i].Datum, f2[i].Datum)

\* List.Equal
ListEqual(l, l2) ==
    IF l.buf.kids = <<>> THEN l2.buf.kids = <<>>
    ELSE IF l.buf = l2.buf /\ stoverlap(l.st, l2.st) THEN TRUE
    ELSE LET i1 == Items(l.st, l.buf.kids)
             i2 == Items(l2.st, l2.buf.kids)
         IN Len(i1) = Len(i2) /\ \A i \in 1 .. Len(i1) : DatumEqual(i1[i], i2[i])

\* Datum.Equal
DatumEqual(d, x) ==
    LET dt == d.buf.t
        xt == x.buf.t
        dv == d.buf.v
        xv == x.buf.v
        whole(f) == ~IsNaN(f) /\ f % 2 = 0
    IN CASE dt = "null" -> xt = "null"
         [] dt = "float" ->
               CASE xt = "float" -> xv = dv
                 [] xt = "int" -> whole(dv) /\ dv \div 2 = xv
                 [] xt = "uint" -> whole(dv) /\ dv >= 0 /\ dv \div 2 = xv
                 [] OTHER -> FALSE
         [] dt = "int" ->
               CASE xt = "int" -> xv = dv
                 [] xt = "uint" -> dv >= 0 /\ dv = xv
                 [] xt = "float" -> whole(xv) /\ xv \div 2 = dv
                 [] OTHER -> FALSE
         [] dt = "uint" ->
               CASE xt = "uint" -> xv = dv
                 [] xt = "int" -> xv >= 0 /\ dv = xv
                 [] xt = "float" -> whole(xv) /\ xv >= 0 /\ xv \div 2 = dv
                 [] OTHER -> FALSE
         [] dt = "struct" -> xt = "struct" /\ StructEqual(d, x)
         [] dt = "list" -> xt = "list" /\ ListEqual(d, x)
         [] dt = "bool" -> xt = "bool" /\ dv = xv
         [] dt \in {"string", "symbol"} ->
               /\ xt \in {"string", "symbol"}
               /\ (IF dt = "symbol" THEN Get(d.st, dv) ELSE dv)
                     = (IF xt = "symbol" THEN Get(x.st, xv) ELSE xv)
         [] dt = "blob" -> xt = "blob" /\ dv = xv
         [] dt = "timestamp" -> xt = "timestamp" /\ dv = xv
         [] OTHER -> FALSE

(***************************************************************************)
(* Resymbolisation: a value is read against a source table, encoded        *)
(* against a destination table and read back against that table.           *)
(***************************************************************************)
SymbolOf(id) == Scalar("symbol", id)
StructOf(fields) == Ion("struct", 0, fields)

ResymValues ==
    << Scalar("null", 0), Scalar("bool", 1), Scalar("uint", 3), Scalar("int", 0 - 3),
       Scalar("float", 6), Scalar("float", 7), Scalar("float", 2147483647),
       Scalar("timestamp", 5), Scalar("string", 97), Scalar("blob", 1), Scalar("clob", 1),
       SymbolOf(1), SymbolOf(2), SymbolOf(3),
       ListOf("list", <<>>),
       ListOf("list", <<SymbolOf(1), Scalar("uint", 3)>>),
       ListOf("list", <<SymbolOf(2), SymbolOf(1), SymbolOf(2)>>),
       ListOf("list", <<ListOf("list", <<SymbolOf(1)>>), Scalar("string", 98)>>),
       ListOf("sexp", <<SymbolOf(1)>>),
       ListOf("sexp", <<Scalar("uint", 3)>>),
       StructOf(<<>>),
       StructOf(<<Kid(1, Scalar("uint", 3)), Kid(2, SymbolOf(1))>>),
       StructOf(<<Kid(2, ListOf("list", <<SymbolOf(2)>>))>>),
       StructOf(<<Kid(1, StructOf(<<Kid(2, Scalar("string", 97))>>))>>),
       StructOf(<<Kid(1, Scalar("clob", 1))>>),
       Ion("annotation", 0, <<Kid(1, SymbolOf(2))>>) >>

SourceTables == {<<97>>, <<97, 98>>, <<98, 97>>}
DestTables == {<<>>, <<98>>, <<97, 98>>, <<97, 98, 99>>}

ResymParams == [v : 1 .. Len(ResymValues), src : SourceTables, dst : DestTables]

NoDatum == [ok |-> FALSE, d |-> Empty]

InitResym ==
    \E par \in ResymParams :
        /\ bc = NewBytecode(<<>>, <<>>)
        /\ pc = 0
        /\ phase = "call"
        /\ drv = [name |-> "resym", d |-> NoDatum, out |-> Empty.buf, dst |-> par.dst,
                  back |-> NoDatum]
        /\ hist = NewHist(par)
        /\ avx = TRUE

\* ReadDatum(S, buf) returns a datum
ReadSource ==
    /\ phase = "call" /\ drv.name = "resym"
    /\ ReadDatum(hist.par.src, ResymValues[hist.par.v]).ok
    /\ drv' = [drv EXCEPT !.d = ReadDatum(hist.par.src, ResymValues[hist.par.v])]
    /\ phase' = "read"
    /\ UNCHANGED <<bc, pc, hist, avx>>

\* ReadDatum(S, buf) returns an error
ReadSourceFails ==
    /\ phase = "call" /\ drv.name = "resym"
    /\ ~ReadDatum(hist.par.src, ResymValues[hist.par.v]).ok
    /\ phase' = "error"
    /\ UNCHANGED <<bc, pc, drv, hist, avx>>

\* d.Encode(dst, D)
EncodeDatum ==
    /\ phase = "read" /\ drv.name = "resym"
    /\ LET e == Encode(drv.d.d, drv.dst)
       IN drv' = [drv EXCEPT !.out = e.out, !.dst = e.st]
    /\ phase' = "encoded"
    /\ UNCHANGED <<bc, pc, hist, avx>>

\* ReadDatum(D, dst.Bytes())
ReadBack ==
    /\ phase = "encoded" /\ drv.name = "resym"
    /\ drv' = [drv EXCEPT !.back = ReadDatum(drv.dst, drv.out)]
    /\ phase' = "done"
    /\ UNCHANGED <<bc, pc, hist, avx>>

NextResym == ReadSource \/ ReadSourceFails \/ EncodeDatum \/ ReadBack

SpecResym == InitResym /\ [][NextResym]_vars

ResymDone == drv.name = "resym" /\ phase = "done"

\* C19: a datum read against S, encoded against D and read back against D
\* is a datum that is Equal to the original one.
C19_ResymRoundTrip == ResymDone => drv.back.ok /\ DatumEqual(drv.back.d, drv.d.d)

\* the types of the values of a tree
RECURSIVE TypesIn(_)
TypesIn(b) == {b.t} \cup UNION {TypesIn(b.kids[i].d) : i \in 1 .. Len(b.kids)}

\* every symbol of a tree is in the table
RECURSIVE Resolvable(_, _)
Resolvable(st, b) ==
    /\ b.t = "symbol" => Lookup(st, b.v)
    /\ \A i \in 1 .. Len(b.kids) :
          /\ b.t \in {"struct", "annotation"} => Lookup(st, b.kids[i].sym)
          /\ Resolvable(st, b.kids[i].d)

\* the round trip of the values that hold no clob, s-expression or annotation
ResymRoundTripOfComparedTypes ==
    (/\ ResymDone
     /\ TypesIn(drv.d.d.buf) \cap {"clob", "sexp", "annotation"} = {}
     /\ Resolvable(hist.par.src, drv.d.d.buf))
        => drv.back.ok /\ DatumEqual(drv.back.d, drv.d.d)

\* an s-expression is copied with the symbol ids of the source table
SexpKeepsSourceIds ==
    /\ ResymDone
    /\ drv.d.d.buf = ListOf("sexp", <<SymbolOf(1)>>)
    /\ drv.out = drv.d.d.buf
    /\ Get(drv.dst, 1) # Get(hist.par.src, 1)

(***************************************************************************)
(* Struct.Equal and List.Equal on pairs of containers, each with the       *)
(* symbol table it was read against.                                       *)
(***************************************************************************)
EqualStructs ==
    << rawDatum(<<97, 98>>, StructOf(<<Kid(1, Scalar("uint", 3)), Kid(2, Scalar("string", 97))>>)),
       rawDatum(<<98, 97>>, StructOf(<<Kid(1, Scalar("string", 97)), Kid(2, Scalar("uint", 3))>>)),
       rawDatum(<<97, 98>>, StructOf(<<Kid(2, Scalar("string", 97)), Kid(1, Scalar("uint", 3))>>)),
       rawDatum(<<97, 98>>, StructOf(<<Kid(1, Scalar("uint", 3))>>)),
       rawDatum(<<97, 98>>, StructOf(<<Kid(1, Scalar("uint", 3)), Kid(2, Scalar("string", 98))>>)),
       rawDatum(<<97, 98, 99>>, StructOf(<<Kid(1, Scalar("uint", 3)), Kid(2, Scalar("string", 97))>>)),
       rawDatum(<<97, 98>>, StructOf(<<Kid(1, Scalar("float", 6)), Kid(2, SymbolOf(1))>>)),
       rawDatum(<<97, 99>>, StructOf(<<Kid(1, Scalar("uint", 3)), Kid(2, Scalar("string", 97))>>)),
       rawDatum(<<>>, StructOf(<<>>)),
       rawDatum(<<97, 98>>, StructOf(<<>>)),
       rawDatum(<<97, 98>>, StructOf(<<Kid(1, ListOf("list", <<SymbolOf(2)>>))>>)),
       rawDatum(<<98, 97>>, StructOf(<<Kid(2, ListOf("list", <<SymbolOf(1)>>))>>)),
       rawDatum(<<97>>, StructOf(<<Kid(1, Scalar("clob", 1))>>)),
       rawDatum(<<98, 97>>, StructOf(<<Kid(2, Scalar("clob", 1))>>)) >>

EqualLists ==
    << rawDatum(<<97, 98>>, ListOf("list", <<SymbolOf(1), Scalar("uint", 3)>>)),
       rawDatum(<<98, 97>>, ListOf("list", <<SymbolOf(2), Scalar("float", 6)>>)),
       rawDatum(<<97, 98>>, ListOf("list", <<Scalar("uint", 3), SymbolOf(1)>>)),
       rawDatum(<<97, 98>>, ListOf("list", <<SymbolOf(1)>>)),
       rawDatum(<<98, 97>>, ListOf("list", <<SymbolOf(1), Scalar("uint", 3)>>)),
       rawDatum(<<97, 98, 99>>, ListOf("list", <<SymbolOf(1), Scalar("uint", 3)>>)),
       rawDatum(<<>>, ListOf("list", <<>>)),
       rawDatum(<<97>>, ListOf("list", <<>>)),
       rawDatum(<<97, 98>>, ListOf("list", <<StructOf(<<Kid(1, Scalar("int", 0 - 3))>>)>>)),
       rawDatum(<<98, 97>>, ListOf("list", <<StructOf(<<Kid(2, Scalar("float", 0 - 6))>>)>>)),
       rawDatum(<<97>>, ListOf("list", <<Scalar("clob", 1)>>)),
       rawDatum(<<98>>, ListOf("list", <<Scalar("clob", 1)>>)) >>

EqualParams ==
    [kind : {"struct"}, a : 1 .. Len(EqualStructs), b : 1 .. Len(EqualStructs)]
        \cup [kind : {"list"}, a : 1 .. Len(EqualLists), b : 1 .. Len(EqualLists)]

EqualLeft(par) == IF par.kind = "struct" THEN EqualStructs[par.a] ELSE EqualLists[par.a]
EqualRight(par) == IF par.kind = "struct" THEN EqualStructs[par.b] ELSE EqualLists[par.b]

InitEqual ==
    \E par \in EqualParams :
        /\ bc = NewBytecode(<<>>, <<>>)
        /\ pc = 0
        /\ phase = "call"
        /\ drv = [name |-> "equal", eq |-> FALSE]
        /\ hist = NewHist(par)
        /\ avx = TRUE

\* s.Equal(s2)
StructEqualCall ==
    /\ phase = "call" /\ drv.name = "equal" /\ hist.par.kind = "struct"
    /\ drv' = [drv EXCEPT !.eq = StructEqual(EqualLeft(hist.par), EqualRight(hist.par))]
    /\ phase' = "done"
    /\ UNCHANGED <<bc, pc, hist, avx>>

\* l.Equal(l2)
ListEqualCall ==
    /\ phase = "call" /\ drv.name = "equal" /\ hist.par.kind = "list"
    /\ drv' = [drv EXCEPT !.eq = ListEqual(EqualLeft(hist.par), EqualRight(hist.par))]
    /\ phase' = "done"
    /\ UNCHANGED <<bc, pc, hist, avx>>

NextEqual == StructEqualCall \/ ListEqualCall

SpecEqual == InitEqual /\ [][NextEqual]_vars

EqualDone == drv.name = "equal" /\ phase = "done"

\* the two structs carry the same mapping from label string to value
SameMapping(s, s2) ==
    LET f1 == Fields(s.st, s.buf.kids)
        f2 == Fields(s2.st, s2.buf.kids)
        in(f, g) == \A i \in 1 .. Len(f) : \E j \in 1 .. Len(g) :
                        f[i].Label = g[j].Label /\ DatumEqual(f[i].Datum, g[j].Datum)
    IN Len(f1) = Len(f2) /\ in(f1, f2) /\ in(f2, f1)

\* the two lists have the same length and Equal items at every position
SameItems(l, l2) ==
    LET i1 == Items(l.st, l.buf.kids)
        i2 == Items(l2.st, l2.buf.kids)
    IN Len(i1) = Len(i2) /\ \A i \in 1 .. Len(i1) : DatumEqual(i1[i], i2[i])

ContainerEquality ==
    IF hist.par.kind = "struct"
    THEN drv.eq <=> SameMapping(EqualLeft(hist.par), EqualRight(hist.par))
    ELSE drv.eq <=> SameItems(EqualLeft(hist.par), EqualRight(hist.par))

\* C20: Struct.Equal holds iff the two structs carry the same mapping from
\* label string to value, whatever the order of the fields and the symbol
\* ids; List.Equal holds iff the lists have the same length and Equal items
\* at every position.
C20_ContainerEquality == EqualDone => ContainerEquality

\* the same for the containers that hold no clob
ContainerEqualityOfComparedTypes ==
    (/\ EqualDone
     /\ "clob" \notin TypesIn(EqualLeft(hist.par).buf) \cup TypesIn(EqualRight(hist.par).buf))
        => ContainerEquality

\* a list with a clob is Equal to itself although its items are not Equal
ListEqualSkipsItems ==
    /\ EqualDone /\ hist.par.kind = "list" /\ hist.par.a = hist.par.b
    /\ drv.eq
    /\ ~SameItems(EqualLeft(hist.par), EqualRight(hist.par))

\* structs equal under renumbered ids and another field order
StructEqualRenumbered ==
    /\ EqualDone /\ hist.par.kind = "struct" /\ hist.par.a = 1 /\ hist.par.b = 2 /\ drv.eq

(***************************************************************************)
(* The order of the field labels in the structs written by Datum.Encode.   *)
(***************************************************************************)
\* the labels of every struct of a tree ascend strictly
RECURSIVE AscendingLabels(_)
AscendingLabels(b) ==
    /\ b.t = "struct" =>
          \A i \in 1 .. (Len(b.kids) - 1) : b.kids[i].sym < b.kids[i + 1].sym
    /\ \A i \in 1 .. Len(b.kids) : AscendingLabels(b.kids[i].d)

\* Datum.Encode did not take its fast path
ResymSlowPath ==
    /\ drv.name = "resym" /\ phase \in {"encoded", "done"}
    /\ Len(drv.d.d.st) # 0
    /\ ~stcontains(hist.par.dst, drv.d.d.st)

\* C21: every struct body written by the resymbolising slow path of
\* Datum.Encode has its field labels in ascending order of destination
\* symbol id.
C21_AscendingLabelsAfterResym ==
    (ResymSlowPath /\ AscendingLabels(drv.d.d.buf)) => AscendingLabels(drv.out)

\* the fields are written in the order of the source struct
ResymKeepsFieldOrder ==
    ResymSlowPath =>
        /\ Len(drv.out.kids) = Len(drv.d.d.buf.kids)
        /\ drv.d.d.buf.t = "struct" =>
              \A i \in 1 .. Len(drv.out.kids) :
                  Get(drv.dst, drv.out.kids[i].sym) = Get(drv.d.d.st, drv.d.d.buf.kids[i].sym)

\* a struct with ascending labels is written with descending labels
ResymDescendingLabels ==
    /\ ResymSlowPath
    /\ drv.d.d.buf.t = "struct" /\ Len(drv.out.kids) = 2
    /\ AscendingLabels(drv.d.d.buf)
    /\ drv.out.kids[1].sym > drv.out.kids[2].sym

(***************************************************************************)
(* ReadDatum on bytes.  A datum is the pair of a symbol table and a byte   *)
(* span; a decoder returns the datum, the rest of the input and whether it *)
(* failed.  nil is the empty span.                                         *)
(***************************************************************************)
EmptyDatum == [st |-> <<>>, buf |-> <<>>]
Null == [st |-> <<>>, buf |-> <<15>>]

Failed(rest) == [err |-> TRUE, d |-> EmptyDatum, rest |-> rest]
Decoded(d, rest) == [err |-> FALSE, d |-> d, rest |-> rest]

\* SizeOf(b) of a non-empty span, -1 when the length varuint is cut short
SizeOfBuf(b) ==
    IF b[1] % 16 = 14 /\ TypeOf(b[1]) # BoolType /\ ~readuv(b, 1, Len(b), 0).ok
    THEN 0 - 1
    ELSE SizeOf(b, 0)

Framed(b) == b # <<>> /\ SizeOfBuf(b) > 0 /\ SizeOfBuf(b) <= Len(b)
From(b, n) == SubSeq(b, n + 1, Len(b))

\* rawDatum(st, b): Datum{buf: b[:SizeOf(b)]}
rawDatumOf(st, b) == [st |-> st, buf |-> SubSeq(b, 1, SizeOfBuf(b))]

\* Contents(b): the body of a value
ContentsOf(b) == SubSeq(b, HeaderSizeOf(b, 0) + 1, SizeOfBuf(b))

\* a decodeNullDatum that returns the bytes it skipped
decodeNullDatumWhole(st, b) ==
    IF ~Framed(b) THEN Failed(b) ELSE Decoded(rawDatumOf(<<>>, b), From(b, SizeOfBuf(b)))

decodeNullDatum(st, b) ==
    IF ~Framed(b) THEN Failed(b) ELSE Decoded(Null, From(b, SizeOfBuf(b)))

\* decodeBoolDatum, decodeUintDatum, decodeIntDatum, decodeFloatDatum,
\* decodeTimestampDatum, decodeBytesDatum
decodeScalarDatum(st, b) ==
    IF TypeOf(b[1]) \in {UintType, IntType} /\ SizeOfBuf(b) > 9 THEN Failed(b)
    ELSE IF ~Framed(b) THEN Failed(b)
    ELSE Decoded(rawDatumOf(<<>>, b), From(b, SizeOfBuf(b)))

decodeSymbolDatum(st, b) ==
    IF ~Framed(b) THEN Failed(b)
    ELSE IF ~Lookup(st, bigEndian(b, 1, Len(ContentsOf(b)), 0)) THEN Failed(From(b, SizeOfBuf(b)))
    ELSE Decoded(rawDatumOf(st, b), From(b, SizeOfBuf(b)))

\* validateDatum: the next datum does not exceed the buffer
validateDatum(st, buf) ==
    IF ~Framed(buf) THEN [err |-> TRUE, next |-> <<>>]
    ELSE [err |-> FALSE, next |-> From(buf, SizeOfBuf(buf))]

RECURSIVE validList(_, _)
validList(st, body) ==
    IF body = <<>> THEN TRUE
    ELSE LET v == validateDatum(st, body) IN ~v.err /\ validList(st, v.next)

decodeListDatum(st, b) ==
    IF ~Framed(b) THEN Failed(<<>>)
    ELSE IF ~validList(st, ContentsOf(b)) THEN Failed(<<>>)
    ELSE Decoded(rawDatumOf(st, b), From(b, SizeOfBuf(b)))

RECURSIVE validFields(_, _)
validFields(st, fields) ==
    IF fields = <<>> THEN TRUE
    ELSE LET l == ReadLabel(fields, 0, Len(fields))
             v == validateDatum(st, From(fields, l.next))
         IN /\ l.ok
            /\ From(fields, l.next) # <<>>
            /\ Lookup(st, l.val)
            /\ ~v.err
            /\ validFields(st, v.next)

decodeStructDatum(st, b) ==
    IF ~Framed(b) THEN Failed(<<>>)
    ELSE IF ~validFields(st, ContentsOf(b)) THEN Failed(<<>>)
    ELSE Decoded(rawDatumOf(st, b), From(b, SizeOfBuf(b)))

decodeDecimalDatum(st, b) == Failed(<<>>)
decodeReserved(st, b) == Failed(b)

\* datumTable[TypeOf(buf)](st, buf)
datumTable(st, buf) ==
    LET t == TypeOf(buf[1])
    IN CASE t = 0 -> decodeNullDatum(st, buf)
         [] t = 5 -> decodeDecimalDatum(st, buf)
         [] t = 7 -> decodeSymbolDatum(st, buf)
         [] t \in {11, 12} -> decodeListDatum(st, buf)
         [] t = 13 -> decodeStructDatum(st, buf)
         [] t = 15 -> decodeReserved(st, buf)
         [] OTHER -> decodeScalarDatum(st, buf)

(***************************************************************************)
(* ReadDatum on one value followed by the rest of a buffer.  Every input   *)
(* carries the name of the failure it was built to show ("ok" when it is   *)
(* well-formed).  Annotations and version markers, which ReadDatum hands   *)
(* to Symtab.Unmarshal first, are not among the inputs.                    *)
(***************************************************************************)
ReadInput(case, bytes) == [case |-> case, bytes |-> bytes]

ReadInputs ==
    << ReadInput("ok", <<15>>),                          \* null
       ReadInput("ok", <<1, 170>>),                      \* a two-byte nop pad
       ReadInput("ok", <<17>>),                          \* true
       ReadInput("ok", <<33, 3>>),                       \* 3
       ReadInput("ok", <<49, 3>>),                       \* -3
       ReadInput("ok", <<72, 64, 8, 0, 0, 0, 0, 0, 0>>), \* 3.0
       ReadInput("ok", <<99, 128, 15, 231>>),            \* a timestamp
       ReadInput("ok", <<129, 97>>),                     \* "a"
       ReadInput("ok", <<142, 129, 97>>),                \* "a" with a varuint length
       ReadInput("ok", <<145, 1>>),                      \* a clob
       ReadInput("ok", <<161, 1>>),                      \* a blob
       ReadInput("ok", <<176>>),                         \* []
       ReadInput("ok", <<178, 33, 3>>),                  \* [3]
       ReadInput("ok", <<180, 113, 9, 33, 3>>),          \* [sym 9, 3]: items are not looked up
       ReadInput("ok", <<194, 33, 3>>),                  \* (3)
       ReadInput("ok", <<208>>),                         \* {}
       ReadInput("ok", <<211, 129, 33, 3>>),             \* {1: 3}
       ReadInput("ok", <<213, 129, 211, 137, 33, 3>>),   \* {1: {9: 3}}: inner labels are not looked up
       ReadInput("ok", <<113, 1>>),                      \* symbol 1
       ReadInput("symbol", <<113, 4>>),                  \* symbol 4
       ReadInput("label", <<211, 132, 33, 3>>),          \* {4: 3}
       ReadInput("label", <<214, 129, 33, 3, 132, 33, 3>>),  \* {1: 3, 4: 3}
       ReadInput("novalue", <<209, 129>>),               \* {1: }
       ReadInput("novalue", <<212, 129, 33, 3, 129>>),   \* {1: 3, 1: }
       ReadInput("size", <<184, 33, 3>>),                \* a list of 8 bytes, 2 present
       ReadInput("size", <<190>>),                       \* a list whose length is cut
       ReadInput("size", <<216, 129, 33, 3>>),           \* a struct of 8 bytes, 3 present
       ReadInput("item", <<178, 34, 1>>),                \* a list whose item is cut
       ReadInput("item", <<211, 129, 34, 1>>),           \* a struct whose value is cut
       ReadInput("reserved", <<240>>),
       ReadInput("decimal", <<80>>) >>

ReadTails == {<<>>, <<15>>, <<33, 3>>}
ReadTables == {<<>>, <<97>>, <<97, 98, 99>>}

ReadParams == [v : 1 .. Len(ReadInputs), tail : ReadTails, st : ReadTables]

\* the bytes handed to ReadDatum; a value that is cut has nothing after it
ReadBuf(par) ==
    IF ReadInputs[par.v].case \in {"size"} THEN ReadInputs[par.v].bytes
    ELSE ReadInputs[par.v].bytes \o par.tail

InitRead ==
    \E par \in ReadParams :
        /\ bc = NewBytecode(<<>>, <<>>)
        /\ pc = 0
        /\ phase = "call"
        /\ drv = [name |-> "read", res |-> Failed(<<>>)]
        /\ hist = NewHist(par)
        /\ avx = TRUE

\* ReadDatum returns a datum and a nil error
ReadDatumReturns ==
    /\ phase = "call" /\ drv.name = "read"
    /\ ~datumTable(hist.par.st, ReadBuf(hist.par)).err
    /\ drv' = [drv EXCEPT !.res = datumTable(hist.par.st, ReadBuf(hist.par))]
    /\ phase' = "done"
    /\ UNCHANGED <<bc, pc, hist, avx>>

\* ReadDatum returns an error
ReadDatumFails ==
    /\ phase = "call" /\ drv.name = "read"
    /\ datumTable(hist.par.st, ReadBuf(hist.par)).err
    /\ drv' = [drv EXCEPT !.res = datumTable(hist.par.st, ReadBuf(hist.par))]
    /\ phase' = "error"
    /\ UNCHANGED <<bc, pc, hist, avx>>

NextRead == ReadDatumReturns \/ ReadDatumFails

SpecRead == InitRead /\ [][NextRead]_vars

ReadReturned == drv.name = "read" /\ phase \in {"done", "error"}

ReadCase == ReadInputs[hist.par.v].case
ReadValue == ReadInputs[hist.par.v].bytes

\* the failures the claim lists end in an error and the Empty datum
ReadFailureModes ==
    ReadReturned =>
        /\ phase = "error" => drv.res.d = EmptyDatum
        /\ ReadCase \in {"reserved", "novalue", "size"} => phase = "error"
        /\ (ReadCase \in {"symbol", "label"} /\ Len(hist.par.st) < 4) => phase = "error"

C22_WitnessError ==
    /\ ReadReturned /\ phase = "error"
    /\ ReadValue = <<214, 129, 33, 3, 132, 33, 3>> /\ hist.par.st = <<97>>
    /\ drv.res.d = EmptyDatum

(***************************************************************************)
(* TeeWriter.  A constituent writer is a number (0 is the nil writer), a   *)
(* final function is a number (0 is nil); an error is a number: 0 is nil,  *)
(* the error of writer w is w, io.EOF is -1.  drv holds the TeeWriter      *)
(* (state, pos) and, for the final functions, the calls they received.     *)
(* Row splitters (their code is not in the sources) are never added, so    *)
(* splitter stays -1 and zblocksize 0.                                     *)
(***************************************************************************)
MaxPos == 3
TeeWriters == 1 .. 2
InnerWriter == Cardinality(TeeWriters) + 1
TeeFinals == 1 .. 5
ioEOF == 0 - 1
CloseErrors == {7}

teeState(w, final) == [w |-> w, final |-> final]

\* func deleteOne[T any](src []T, i int) []T
deleteOne(src, i) == SubSeq([src EXCEPT ![i + 1] = src[Len(src)]], 1, Len(src) - 1)

\* final(pos, err) is called
CallFinal(fin, f, at, err) == [fin EXCEPT ![f] = Append(@, [pos |-> at, err |-> err])]

\* the loop of TeeWriter.Write from index i; fails are the writers whose
\* Write returns an error (with n bytes written)
RECURSIVE WriteLoop(_, _, _, _)
WriteLoop(t, i, fails, n) ==
    IF i >= Len(t.state) THEN t
    ELSE LET s == t.state[i + 1]
             u == [t EXCEPT !.late = IF s.w \in t.failed THEN @ \cup {s.w} ELSE @]
         IN IF s.w = 0 THEN [t EXCEPT !.panic = TRUE]
            ELSE IF s.w \notin fails THEN WriteLoop(u, i + 1, fails, n)
            ELSE IF s.final = 0 THEN [u EXCEPT !.panic = TRUE, !.failed = @ \cup {s.w}]
            ELSE WriteLoop([u EXCEPT !.fin = CallFinal(@, s.final, n + t.pos, s.w),
                                     !.state = deleteOne(@, i),
                                     !.failed = @ \cup {s.w}],
                           i, fails, n)

\* func (t *TeeWriter) Write(p []byte) (int, error)
TeeWrite(t, len, fails, n) ==
    LET u == WriteLoop(t, 0, fails, n)
    IN IF u.panic THEN [u EXCEPT !.call = "Write", !.before = t.pos]
       ELSE IF Len(u.state) = 0
       THEN [u EXCEPT !.call = "Write", !.before = t.pos, !.ret = [n |-> 0, err |-> ioEOF]]
       ELSE [u EXCEPT !.call = "Write", !.before = t.pos, !.pos = @ + len,
                      !.ret = [n |-> len, err |-> 0]]

\* the loop of CloseError
RECURSIVE CloseLoop(_, _, _, _)
CloseLoop(fin, state, at, err) ==
    IF state = <<>> THEN fin
    ELSE CloseLoop(IF Head(state).final # 0 THEN CallFinal(fin, Head(state).final, at, err)
                   ELSE fin,
                   Tail(state), at, err)

\* a CloseError that keeps the writers
TeeCloseErrorKeeps(t, err) ==
    [t EXCEPT !.fin = CloseLoop(@, t.state, t.pos, err),
              !.call = "Close", !.before = t.pos, !.closed = TRUE]

\* func (t *TeeWriter) CloseError(err error)
TeeCloseError(t, err) ==
    [t EXCEPT !.fin = CloseLoop(@, t.state, t.pos, err), !.state = <<>>,
              !.call = "Close", !.before = t.pos, !.closed = TRUE]

\* NewTeeWriter(out, final)
NewTeeWriter(w, final) ==
    [name |-> "tee", state |-> <<teeState(w, final)>>, pos |-> 0,
     fin |-> [f \in TeeFinals |-> <<>>], added |-> {final}, failed |-> {}, late |-> {},
     call |-> "New", before |-> 0, ret |-> [n |-> 0, err |-> 0], panic |-> FALSE,
     closed |-> FALSE, len |-> 0]

InitTee ==
    /\ bc = NewBytecode(<<>>, <<>>)
    /\ pc = 0
    /\ phase = "tee"
    /\ drv = NewTeeWriter(1, 1)
    /\ hist = NewHist([n |-> 0])
    /\ avx = TRUE

TeeIdle == phase = "tee" /\ drv.name = "tee" /\ ~drv.panic

\* t.Add(w, final) with a plain writer; final may be nil
TeeAdd ==
    /\ TeeIdle
    /\ \E w \in TeeWriters, withFinal \in BOOLEAN :
          /\ \A i \in 1 .. Len(drv.state) : drv.state[i].w # w
          /\ w \notin drv.failed /\ w \notin drv.added
          /\ drv' = [drv EXCEPT !.state = Append(@, teeState(w, IF withFinal THEN w ELSE 0)),
                                !.added = IF withFinal THEN @ \cup {w} ELSE @,
                                !.call = "Add", !.closed = FALSE]
    /\ UNCHANGED <<bc, pc, phase, hist, avx>>

\* t.Add(tw, final) with tw = NewTeeWriter(InnerWriter, its final): flattened
TeeAddTee ==
    /\ TeeIdle
    /\ InnerWriter \notin drv.added
    /\ drv' = [drv EXCEPT !.state = @ \o <<teeState(InnerWriter, InnerWriter), teeState(0, 5)>>,
                          !.added = @ \cup {InnerWriter, 5},
                          !.call = "Add", !.closed = FALSE]
    /\ UNCHANGED <<bc, pc, phase, hist, avx>>

\* t.Write(p) returns
TeeWriteCall ==
    /\ TeeIdle
    /\ drv.pos < MaxPos
    /\ \E len \in 1 .. 2, fails \in SUBSET (TeeWriters \cup {InnerWriter}), n \in 0 .. 1 :
          /\ ~TeeWrite(drv, len, fails, n).panic
          /\ drv' = [TeeWrite(drv, len, fails, n) EXCEPT !.len = len]
    /\ UNCHANGED <<bc, pc, phase, hist, avx>>

\* t.Write(p) panics: a nil writer is written to or a nil final is called
TeeWritePanics ==
    /\ TeeIdle
    /\ drv.pos < MaxPos
    /\ \E len \in 1 .. 2, fails \in SUBSET (TeeWriters \cup {InnerWriter}), n \in 0 .. 1 :
          /\ TeeWrite(drv, len, fails, n).panic
          /\ drv' = [TeeWrite(drv, len, fails, n) EXCEPT !.len = len]
    /\ UNCHANGED <<bc, pc, phase, hist, avx>>

\* t.Close()
TeeClose ==
    /\ TeeIdle
    /\ drv' = TeeCloseError(drv, 0)
    /\ UNCHANGED <<bc, pc, phase, hist, avx>>

\* t.CloseError(err)
TeeCloseErr ==
    /\ TeeIdle
    /\ \E err \in CloseErrors : drv' = TeeCloseError(drv, err)
    /\ UNCHANGED <<bc, pc, phase, hist, avx>>

NextTee == TeeAdd \/ TeeAddTee \/ TeeWriteCall \/ TeeWritePanics \/ TeeClose \/ TeeCloseErr

SpecTee == InitTee /\ [][NextTee]_vars

\* a call of Write has ended
WriteEnded == drv.name = "tee" /\ drv.call = "Write"

\* what Write returned, by the writers that remain
WriteResult ==
    /\ drv.ret.err \in {0, ioEOF}
    /\ Len(drv.state) > 0 =>
          drv.ret = [n |-> drv.len, err |-> 0] /\ drv.pos = drv.before + drv.len
    /\ Len(drv.state) = 0 =>
          drv.ret = [n |-> 0, err |-> ioEOF] /\ drv.pos = drv.before

\* C23: Write never returns the error of a constituent writer: it returns
\* (len(p), nil) whenever a writer remains after the call and (0, io.EOF)
\* exactly when none remains, and then the position is not advanced.
C23_WriteNeverReturnsWriterError == WriteEnded => ~drv.panic /\ WriteResult

\* the same for the calls of Write that return
WriteResultWhenReturned == (WriteEnded /\ ~drv.panic) => WriteResult

\* Write panicked with a writer still in the TeeWriter
WritePanicked ==
    /\ WriteEnded /\ drv.panic
    /\ \E i \in 1 .. Len(drv.state) : drv.state[i].w # 0

\* Write returned io.EOF after the last writer failed
WriteReturnedEOF ==
    /\ WriteEnded /\ ~drv.panic /\ drv.ret.err = ioEOF /\ drv.failed # {} /\ drv.before > 0

C25_MissingAfterFindsym ==
    OpsDone("findsym") =>
        \A i \in Lanes :
            ~Bit(bc.vstack.k[drv.dstk], i) => bc.vstack.v[drv.dst].sizes[i] = 0

\* what the code keeps: a lane that was not searched (its input mask bit is
\* clear) and a searched lane without a smaller field have size 0
FindsymEmptyWithoutSmallerField ==
    OpsDone("findsym") =>
        \A i \in Lanes :
            /\ (~OpsActive(i) /\ ~\E j \in 0 .. i : OpsScanFails(j, drv.arg))
                  => bc.vstack.v[drv.dst].sizes[i] = 0
            /\ (FindsymMiss(i) /\ SmallerFields(RowFields[OpsKind(i)], drv.arg) = 0)
                  => bc.vstack.v[drv.dst].sizes[i] = 0

\* a searched lane without the target but with a smaller field: the mask bit
\* is clear and the size is the one of the smaller field
FindsymMissNotEmpty ==
    /\ OpsDone("findsym")
    /\ \E i \in Lanes :
          /\ FindsymMiss(i)
          /\ SmallerFields(RowFields[OpsKind(i)], drv.arg) > 0
          /\ ~Bit(bc.vstack.k[drv.dstk], i)
          /\ bc.vstack.v[drv.dst].sizes[i] # 0

\* the projection of field 20 writes the value of field 9 for a row that has
\* no field 20: the row {5: "abcdef", 9: 3.0} becomes {300: "abcdef", 12: 3.0}
ProjectEmitsNeighbour ==
    /\ drv.name = "project" /\ phase = "done"
    /\ Len(drv.symbols) = 2
    /\ \E r \in 1 .. drv.ret[2] :
          LET vals == BatchOf(r).regs.v[2] IN
          /\ kindAt(hist.par, r) = 2
          /\ RowSurvives(r)
          /\ ~Bit(BatchOf(r).regs.k[2], LaneOf(r))
          /\ vals.sizes[LaneOf(r)] = 9
          /\ SubSeq(Vmm, vals.offsets[LaneOf(r)] + 1, vals.offsets[LaneOf(r)] + 9)
                = <<72, 64, 8, 0, 0, 0, 0, 0, 0>>

(***************************************************************************)
(* evalprojectgo: the delimiters and auxpos at an early return.            *)
(***************************************************************************)
\* the projection has returned r = drv.ret[2] rows with rows left over
ProjectEarly ==
    /\ drv.name = "project" /\ phase = "done"
    /\ drv.ret[2] < Len(drv.delims)

\* the delimiter of the row at index idx (from 0) is the one of the entry
DelimIntact(idx) == drv.delims[idx + 1] = Input(hist.par)[idx + 1]

\* the delimiter of the row at index idx points into the output buffer
DelimRedirected(idx) ==
    /\ drv.delims[idx + 1][1] > drv.dstDisp
    /\ drv.delims[idx + 1][1] + drv.delims[idx + 1][2] <= drv.dstDisp + Len(drv.dst)

\* C26 (as stated): at an early return reporting r rows every delimiter at
\* index >= r holds the (offset, length) it had on entry.
C26_EarlyReturnKeepsDelims ==
    ProjectEarly => \A idx \in drv.ret[2] .. (Len(drv.delims) - 1) : DelimIntact(idx)

\* what the code keeps: the return for bc.err leaves every delimiter from r
\* on intact; the return for a full buffer leaves those past the batch intact,
\* and every delimiter that differs from the entry is one of a surviving row
\* and points into the output buffer
ProjectEarlyKeepsLaterBatches ==
    ProjectEarly =>
        /\ bc.err # 0 => \A idx \in drv.ret[2] .. (Len(drv.delims) - 1) : DelimIntact(idx)
        /\ \A idx \in 0 .. (Len(drv.delims) - 1) :
              /\ idx >= drv.ret[2] + bcLaneCount => DelimIntact(idx)
              /\ ~DelimIntact(idx) => RowSurvives(idx + 1) /\ DelimRedirected(idx)

\* the buffer fills in the middle of a batch: a row at index >= r has been
\* redirected to a struct in the output buffer, past the offset returned
ProjectRedirectsUnprocessed ==
    /\ ProjectEarly /\ bc.err = 0
    /\ \E idx \in drv.ret[2] .. (Len(drv.delims) - 1) :
          /\ ~DelimIntact(idx) /\ DelimRedirected(idx)
          /\ drv.delims[idx + 1][1] > drv.dstDisp + drv.ret[1]

\* the return for bc.err with rows left over
ProjectErrorReturn == ProjectEarly /\ bc.err # 0 /\ drv.ret[2] > 0

\* the rows a driver reports as consumed: rowsProcessed of evalprojectgo,
\* ipos of evalsplatgo
RowsConsumed == IF drv.name = "project" THEN drv.ret[2] ELSE drv.ret[1]

DriverReturned == drv.name \in {"project", "splat"} /\ phase = "done"

\* C27 (as stated): when evalprojectgo returns reporting r rows consumed,
\* early returns included, auxpos has advanced by exactly r since entry
\* (auxpos is 0 at entry; both programs end in one ret.k).
C27_AuxposAlignedWithRows ==
    (DriverReturned /\ drv.name = "project") => bc.auxpos = RowsConsumed

\* the same statement of evalsplatgo (the program ends in one ret.s.k)
SplatAuxposAlignedWithRows ==
    (DriverReturned /\ drv.name = "splat") => bc.auxpos = RowsConsumed

\* what the code keeps: auxpos is the number of rows of the batches whose
\* eval ended without an error, whatever the driver reports
AuxposCountsEvaluatedRows ==
    DriverReturned =>
        bc.auxpos = SumTo([k \in 1 .. Len(hist.batches) |->
                              IF hist.batches[k].err = 0 THEN hist.batches[k].n ELSE 0],
                          Len(hist.batches))

\* and a return from the loop head reports as many rows as auxpos advanced
ProjectAuxposAtLoopEnd ==
    (DriverReturned /\ drv.name = "project" /\ drv.ret[2] = Len(drv.delims))
        => bc.auxpos = RowsConsumed

\* the output buffer fills in the second batch: 16 rows are reported and
\* auxpos has advanced past the rows of the interrupted batch as well
AuxposAheadOfRows ==
    /\ DriverReturned /\ bc.err = 0
    /\ RowsConsumed = bcLaneCount
    /\ bc.auxpos = Len(Input(hist.par)) /\ bc.auxpos > bcLaneCount

(***************************************************************************)
(* evalfindgo: bc.vstack at the return.                                    *)
(***************************************************************************)
FindReturned == drv.name = "find" /\ phase = "done"

\* C28 (as stated): on every return path of evalfindgo, the one for bc.err
\* included, bc.vstack is again the slice it was on entry.
C28_FindRestoresVstack == FindReturned => drv.base = 0

\* what the code keeps: while running bc.vstack is one stride further per
\* completed batch; the return from the loop head restores the slice of the
\* entry, whose first frame holds the registers of the first batch; the
\* return for bc.err leaves bc.vstack where the failing batch had it
FindVstackByPath ==
    /\ (drv.name = "find" /\ phase # "done") => drv.base = Len(drv.frames)
    /\ FindReturned =>
          IF bc.err = 0
          THEN /\ drv.base = 0
               /\ drv.frames # <<>> => bc.vstack = drv.frames[1]
          ELSE /\ drv.base = Len(hist.batches) - 1
               /\ bc.vstack = hist.batches[Len(hist.batches)].regs

\* the second batch sets bc.err: evalfindgo returns with bc.vstack one stride
\* past the slice of the entry
FindErrorLeavesVstackAdvanced ==
    /\ FindReturned /\ bc.err # 0
    /\ Len(hist.batches) = 2 /\ drv.base = 1

\* the return after two batches without error
FindRestoredAfterTwoBatches ==
    /\ FindReturned /\ bc.err = 0
    /\ Len(hist.batches) = 2 /\ drv.base = 0

(***************************************************************************)
(* Datum.Equal on pairs of datums that ReadDatum returns, each read        *)
(* against a symbol table of its own.                                      *)
(***************************************************************************)
DatumTables == {<<97, 98>>, <<98, 97>>}

DatumParams ==
    [a : 1 .. Len(ResymValues), b : 1 .. Len(ResymValues), sa : SourceTables,
     sb : DatumTables]

InitDatum ==
    \E par \in DatumParams :
        /\ bc = NewBytecode(<<>>, <<>>)
        /\ pc = 0
        /\ phase = "call"
        /\ drv = [name |-> "datum", a |-> NoDatum, b |-> NoDatum,
                  aa |-> FALSE, ab |-> FALSE, ba |-> FALSE]
        /\ hist = NewHist(par)
        /\ avx = TRUE

\* a, _, _ := ReadDatum(sa, ...); b, _, _ := ReadDatum(sb, ...)
DatumRead ==
    /\ phase = "call" /\ drv.name = "datum"
    /\ ReadDatum(hist.par.sa, ResymValues[hist.par.a]).ok
    /\ ReadDatum(hist.par.sb, ResymValues[hist.par.b]).ok
    /\ drv' = [drv EXCEPT !.a = ReadDatum(hist.par.sa, ResymValues[hist.par.a]),
                          !.b = ReadDatum(hist.par.sb, ResymValues[hist.par.b])]
    /\ phase' = "read"
    /\ UNCHANGED <<bc, pc, hist, avx>>

\* one of the two is not decodable
DatumReadFails ==
    /\ phase = "call" /\ drv.name = "datum"
    /\ \/ ~ReadDatum(hist.par.sa, ResymValues[hist.par.a]).ok
       \/ ~ReadDatum(hist.par.sb, ResymValues[hist.par.b]).ok
    /\ phase' = "error"
    /\ UNCHANGED <<bc, pc, drv, hist, avx>>

\* Equal(a, a), Equal(a, b), Equal(b, a)
DatumEqualCall ==
    /\ phase = "read" /\ drv.name = "datum"
    /\ drv' = [drv EXCEPT !.aa = DatumEqual(drv.a.d, drv.a.d),
                          !.ab = DatumEqual(drv.a.d, drv.b.d),
                          !.ba = DatumEqual(drv.b.d, drv.a.d)]
    /\ phase' = "done"
    /\ UNCHANGED <<bc, pc, hist, avx>>

NextDatum == DatumRead \/ DatumReadFails \/ DatumEqualCall

SpecDatum == InitDatum /\ [][NextDatum]_vars

DatumDone == drv.name = "datum" /\ phase = "done"

\* C29 (as stated): for every datum d that ReadDatum returns Equal(d, d) is
\* true, and for every pair Equal(a, b) = Equal(b, a).
C29_EqualIsEquivalence == DatumDone => drv.aa /\ (drv.ab <=> drv.ba)

\* every item of every list and every field of every struct of the tree can
\* be read against the table
RECURSIVE Readable(_, _)
Readable(st, b) ==
    /\ ReadDatum(st, b).ok
    /\ \A i \in 1 .. Len(b.kids) : Readable(st, b.kids[i].d)

\* what the code keeps: Equal(d, d) for a datum that is no clob, s-expression
\* or annotation; Equal(a, b) = Equal(b, a) when every item of a and of b can
\* be read
EqualOnComparedTypes ==
    DatumDone =>
        /\ drv.a.d.buf.t \notin {"clob", "sexp", "annotation"} => drv.aa
        /\ (Readable(hist.par.sa, drv.a.d.buf) /\ Readable(hist.par.sb, drv.b.d.buf))
              => (drv.ab <=> drv.ba)

\* a clob and an s-expression are not Equal to themselves
EqualNotReflexive ==
    /\ DatumDone /\ ~drv.aa
    /\ drv.a.d.buf.t = "clob"
    /\ drv.b.d.buf.t = "sexp" /\ ~DatumEqual(drv.b.d, drv.b.d)

\* a list whose item is a symbol the table lacks is Equal to the empty list,
\* and the empty list is not Equal to it
EqualNotSymmetric ==
    /\ DatumDone
    /\ drv.a.d.buf.t = "list" /\ drv.a.d.buf.kids # <<>>
    /\ ~Readable(hist.par.sa, drv.a.d.buf)
    /\ drv.b.d.buf = ListOf("list", <<>>)
    /\ drv.ab /\ ~drv.ba

(***************************************************************************)
(* Resymbolisation: the ids of the emitted bytes.                          *)
(***************************************************************************)
\* the id out of the destination table names the string that the id in of
\* the source table names
SameString(src, dst, in, out) == Lookup(dst, out) /\ dst[out] = Get(src, in)

\* every symbol value and every field label of the emitted tree out is the
\* translation of the one at its place in the source tree b; with sexps the
\* bodies of s-expressions are compared too
RECURSIVE Translated(_, _, _, _, _)
Translated(src, dst, b, out, sexps) ==
    /\ out.t = b.t /\ Len(out.kids) = Len(b.kids)
    /\ b.t = "symbol" => SameString(src, dst, b.v, out.v)
    /\ (b.t # "sexp" \/ sexps) =>
          \A i \in 1 .. Len(b.kids) :
              /\ b.t \in {"struct", "annotation"} =>
                    SameString(src, dst, b.kids[i].sym, out.kids[i].sym)
              /\ Translated(src, dst, b.kids[i].d, out.kids[i].d, sexps)

\* the id cache of the resymbolizer after the datum has been emitted
ResymCache ==
    resym([idmap |-> <<>>, srctab |-> hist.par.src, dsttab |-> hist.par.dst],
          drv.d.d.buf).r.idmap

\* no destination id of the cache stands for two different strings
CacheOneString(idmap) ==
    \A i, j \in 1 .. Len(idmap) :
        (idmap[i] # 0 /\ idmap[i] = idmap[j])
            => Get(hist.par.src, i - 1) = Get(hist.par.src, j - 1)

\* C30 (as stated): after Encode against a table that does not contain the
\* source table every symbol value and field label of the emitted bytes, at
\* any depth and inside lists, structs, s-expressions and annotations, is an
\* id of the destination table that names the string the original id named,
\* and the id cache maps no two different strings to one destination id.
C30_ResymComplete ==
    ResymSlowPath =>
        /\ Translated(hist.par.src, drv.dst, drv.d.d.buf, drv.out, TRUE)
        /\ CacheOneString(ResymCache)

\* what the code keeps: the same outside the bodies of s-expressions, which
\* are appended as they are
ResymCompleteOutsideSexp ==
    ResymSlowPath =>
        /\ Translated(hist.par.src, drv.dst, drv.d.d.buf, drv.out, FALSE)
        /\ CacheOneString(ResymCache)
        /\ \A i \in 1 .. Len(ResymCache) : ResymCache[i] # 0 => Lookup(drv.dst, ResymCache[i])

\* the symbol of the s-expression (a) read against the table (a) and encoded
\* against the table (b) is emitted as id 1, which names b there
SexpSymbolNotTranslated ==
    /\ ResymSlowPath
    /\ hist.par.src = <<97>> /\ hist.par.dst = <<98>>
    /\ drv.d.d.buf = ListOf("sexp", <<SymbolOf(1)>>)
    /\ drv.out.kids[1].d.v = 1 /\ Get(drv.dst, 1) = 98

\* two source ids are translated, inside a list, to two destination ids
ResymTranslatesNested ==
    /\ ResymSlowPath
    /\ hist.par.src = <<98, 97>> /\ hist.par.dst = <<97, 98>>
    /\ drv.d.d.buf = ListOf("list", <<SymbolOf(2), SymbolOf(1), SymbolOf(2)>>)
    /\ drv.out = ListOf("list", <<SymbolOf(1), SymbolOf(2), SymbolOf(1)>>)
    /\ ResymCache = <<0, 2, 1>>

=============================================================================
